---- MODULE Spec2Model ----
(***************************************************************************)
(* Bank reconciliation (src/src/bank_reconciliation.py): the normalizers,  *)
(* the two loaders, the greedy matcher, the PERSIST transaction and the    *)
(* reconcile coordinator, as a state machine over the receipt store.       *)
(*                                                                         *)
(* Strings are sequences of one-character strings.  Amounts are integers   *)
(* in hundredths (the inputs carry at most two fraction digits).  A date   *)
(* is [day, sec]: the proleptic Gregorian ordinal and the time of day.     *)
(***************************************************************************)
EXTENDS Integers, Sequences, FiniteSets, TLC

VARIABLES store, session, pc, config, excel, df_banco, df_comprobantes,
          results, executed, outcome, report, pre, exit_code

(* the state of the reconcile command *)
reconcile_vars == <<store, session, pc, config, excel, df_banco, df_comprobantes,
                    results, executed, outcome, report, pre, exit_code>>

(* the completed runs of a sequence of reconcile runs *)
VARIABLES history

(* a normalizer applied to one value: which one, the value, the result and *)
(* what the value stands for                                               *)
VARIABLES fn, raw, norm, origin

normalizer_vars == <<fn, raw, norm, origin>>

(* the tables DbExporter writes to, and the last call made to it *)
VARIABLES comprobantes, mensajes, last_call

exporter_vars == <<comprobantes, mensajes, last_call>>

(* the last WhatsApp message given to process_new_message *)
VARIABLES last_message

(* the receive_message requests being served by the web application *)
VARIABLES requests

(* a ProcessTab of the launcher: the subprocesses it has spawned, its      *)
(* self.process and its self.is_running                                    *)
VARIABLES spawned, process, is_running

launcher_vars == <<spawned, process, is_running>>

(* the message intake and the launcher *)
intake_vars == <<last_message, requests, launcher_vars>>

vars == <<reconcile_vars, history, normalizer_vars, exporter_vars, intake_vars>>

(* what the reconcile command leaves alone *)
others == <<history, normalizer_vars, exporter_vars, intake_vars>>

(***************************************************************************)
(* Bounds of the model.                                                    *)
(***************************************************************************)
MaxBankRows == 2
NumReceipts == 2
MaxConsecutiveRuns == 2
MaxCuitLen == 5
MaxStored == 2
MaxBatch == 2
MaxConceptoLen == 3
MaxRequests == 3
MaxSpawned == 4

(***************************************************************************)
(* Cell values: a spreadsheet cell or a database column holds null, a      *)
(* string, or (bank dates only) a datetime.                                *)
(***************************************************************************)
Null == [t |-> "null"]
Str(s) == [t |-> "str", s |-> s]
DateTime(y, m, d, sec) == [t |-> "datetime", y |-> y, m |-> m, d |-> d, sec |-> sec]

Digits == {"0", "1", "2", "3", "4", "5", "6", "7", "8", "9"}
Whitespace == {" ", "\t"}

DigitVal(c) ==
    CASE c = "0" -> 0 [] c = "1" -> 1 [] c = "2" -> 2 [] c = "3" -> 3
      [] c = "4" -> 4 [] c = "5" -> 5 [] c = "6" -> 6 [] c = "7" -> 7
      [] c = "8" -> 8 [] c = "9" -> 9

(* str.replace(ch, '') *)
RECURSIVE Remove(_, _)
Remove(s, chars) ==
    IF s = <<>> THEN <<>>
    ELSE IF Head(s) \in chars THEN Remove(Tail(s), chars)
         ELSE <<Head(s)>> \o Remove(Tail(s), chars)

(* str.replace(a, b) for one-character a and b *)
RECURSIVE Replace(_, _, _)
Replace(s, a, b) ==
    IF s = <<>> THEN <<>>
    ELSE <<IF Head(s) = a THEN b ELSE Head(s)>> \o Replace(Tail(s), a, b)

(* str.strip() *)
RECURSIVE LStrip(_)
LStrip(s) == IF s # <<>> /\ Head(s) \in Whitespace THEN LStrip(Tail(s)) ELSE s

RECURSIVE RStrip(_)
RStrip(s) ==
    IF s # <<>> /\ s[Len(s)] \in Whitespace THEN RStrip(SubSeq(s, 1, Len(s) - 1)) ELSE s

Strip(s) == RStrip(LStrip(s))

(* pd.isna(x) or not x *)
IsBlank(cell) == cell.t = "null" \/ (cell.t = "str" /\ cell.s = <<>>)

(***************************************************************************)
(* _normalize_cuit                                                         *)
(***************************************************************************)
(* the dots left in *)
NormalizeCuit_NoDots(cuit) ==
    IF IsBlank(cuit) THEN <<>>
    ELSE Strip(Remove(Remove(cuit.s, {"-"}), {" "}))

NormalizeCuit(cuit) ==
    IF IsBlank(cuit) THEN <<>>
    ELSE Strip(Remove(Remove(Remove(cuit.s, {"-"}), {" "}), {"."}))

(***************************************************************************)
(* float(): an optional sign, then either digits with at most one point    *)
(* and at least one digit, or one of the literals inf, infinity and nan in *)
(* any case.  The result is [ok, kind, v]: for a finite number v is the    *)
(* value in hundredths, for inf its sign.  (Exponents and digit-group      *)
(* underscores, which float() also reads, occur in no input drawn here.)   *)
(***************************************************************************)
RECURSIVE DigitsValue(_)
DigitsValue(s) == IF s = <<>> THEN 0 ELSE 10 * DigitsValue(SubSeq(s, 1, Len(s) - 1)) + DigitVal(s[Len(s)])

AllDigits(s) == \A i \in 1..Len(s) : s[i] \in Digits

PointAt(s) == IF \E i \in 1..Len(s) : s[i] = "." THEN CHOOSE i \in 1..Len(s) : s[i] = "." /\ \A j \in 1..(i - 1) : s[j] # "." ELSE 0

ToLower(c) ==
    CASE c = "I" -> "i" [] c = "N" -> "n" [] c = "F" -> "f" [] c = "A" -> "a"
      [] c = "T" -> "t" [] c = "Y" -> "y" [] OTHER -> c

Lower(s) == [i \in 1..Len(s) |-> ToLower(s[i])]

UnsignedFloat(s) ==
    LET p == PointAt(s)
        ip == IF p = 0 THEN s ELSE SubSeq(s, 1, p - 1)
        fp == IF p = 0 THEN <<>> ELSE SubSeq(s, p + 1, Len(s))
    IN IF Lower(s) \in {<<"i", "n", "f">>, <<"i", "n", "f", "i", "n", "i", "t", "y">>}
       THEN [ok |-> TRUE, kind |-> "inf", v |-> 1]
       ELSE IF Lower(s) = <<"n", "a", "n">>
       THEN [ok |-> TRUE, kind |-> "nan", v |-> 0]
       ELSE IF AllDigits(ip) /\ AllDigits(fp) /\ Len(ip) + Len(fp) > 0 /\ Len(fp) <= 2
       THEN [ok |-> TRUE, kind |-> "finite",
             v |-> 100 * DigitsValue(ip)
                   + (IF Len(fp) = 0 THEN 0
                      ELSE IF Len(fp) = 1 THEN 10 * DigitsValue(fp)
                      ELSE DigitsValue(fp))]
       ELSE [ok |-> FALSE, kind |-> "finite", v |-> 0]

ParseFloat(s) ==
    IF s # <<>> /\ Head(s) \in {"-", "+"}
    THEN LET u == UnsignedFloat(Tail(s))
         IN IF Head(s) = "-" THEN [u EXCEPT !.v = 0 - u.v] ELSE u
    ELSE UnsignedFloat(s)

(***************************************************************************)
(* _normalize_monto.  NormalizeMontoFloat is the float it returns, as      *)
(* [kind, v]; NormalizeMonto is that float as the frame column holds it:   *)
(* the number in hundredths, or the name of the special value.             *)
(***************************************************************************)
Finite(v) == [kind |-> "finite", v |-> v]

NormalizeMontoFloat(monto, cfg) ==
    IF IsBlank(monto) THEN Finite(0)
    ELSE LET s0 == Remove(Strip(monto.s), {"$"} \cup Whitespace)
             s1 == IF cfg.decimal_sep = ","
                   THEN Replace(Remove(s0, {cfg.thousands_sep}), cfg.decimal_sep, ".")
                   ELSE s0
             f == ParseFloat(s1)
         IN IF f.ok THEN [kind |-> f.kind, v |-> f.v] ELSE Finite(0)

NormalizeMonto(monto, cfg) ==
    LET f == NormalizeMontoFloat(monto, cfg)
    IN IF f.kind = "finite" THEN f.v ELSE f.kind

(***************************************************************************)
(* datetime.strptime for the formats of _parse_fecha: three fields divided *)
(* by one separator character, day-month-year, year-month-day or (a        *)
(* format the configuration may name) month-day-year.                      *)
(***************************************************************************)
RECURSIVE Split(_, _)
Split(s, sep) ==
    IF \E i \in 1..Len(s) : s[i] = sep
    THEN LET i == CHOOSE k \in 1..Len(s) : s[k] = sep /\ \A j \in 1..(k - 1) : s[j] # sep
         IN <<SubSeq(s, 1, i - 1)>> \o Split(SubSeq(s, i + 1, Len(s)), sep)
    ELSE <<s>>

FormatOf(name) ==
    CASE name = "%d/%m/%Y" -> [sep |-> "/", order |-> "dmY"]
      [] name = "%Y-%m-%d" -> [sep |-> "-", order |-> "Ymd"]
      [] name = "%d-%m-%Y" -> [sep |-> "-", order |-> "dmY"]
      [] name = "%Y/%m/%d" -> [sep |-> "/", order |-> "Ymd"]
      [] name = "%m/%d/%Y" -> [sep |-> "/", order |-> "mdY"]

(* %d: 3[0-1]|[1-2]\d|0[1-9]|[1-9]| [1-9] *)
IsDayField(f) ==
    \/ Len(f) \in {1, 2} /\ AllDigits(f) /\ DigitsValue(f) \in 1..31
    \/ Len(f) = 2 /\ f[1] = " " /\ f[2] \in Digits \ {"0"}

(* %m: 1[0-2]|0[1-9]|[1-9] *)
IsMonthField(f) == Len(f) \in {1, 2} /\ AllDigits(f) /\ DigitsValue(f) \in 1..12

(* %Y: \d\d\d\d *)
IsYearField(f) == Len(f) = 4 /\ AllDigits(f)

IsLeap(y) == (y % 4 = 0) /\ ((y % 100 # 0) \/ (y % 400 = 0))

DaysInMonth(y, m) ==
    IF m = 2 THEN (IF IsLeap(y) THEN 29 ELSE 28)
    ELSE IF m \in {4, 6, 9, 11} THEN 30 ELSE 31

RECURSIVE DaysBeforeMonth(_, _)
DaysBeforeMonth(y, m) == IF m = 1 THEN 0 ELSE DaysBeforeMonth(y, m - 1) + DaysInMonth(y, m - 1)

(* date.toordinal() *)
Ordinal(y, m, d) ==
    365 * (y - 1) + ((y - 1) \div 4) - ((y - 1) \div 100) + ((y - 1) \div 400)
    + DaysBeforeMonth(y, m) + d

NoDate == [ok |-> FALSE, day |-> 0, sec |-> 0]

Strptime(s, name) ==
    LET fmt == FormatOf(name)
        fs == Split(s, fmt.sep)
    IN IF Len(fs) # 3 THEN NoDate
       ELSE LET fd == CASE fmt.order = "dmY" -> fs[1] [] fmt.order = "Ymd" -> fs[3] [] fmt.order = "mdY" -> fs[2]
                fm == CASE fmt.order = "dmY" -> fs[2] [] fmt.order = "Ymd" -> fs[2] [] fmt.order = "mdY" -> fs[1]
                fy == IF fmt.order = "Ymd" THEN fs[1] ELSE fs[3]
            IN IF IsDayField(fd) /\ IsMonthField(fm) /\ IsYearField(fy)
               THEN LET d == DigitsValue(Remove(fd, {" "}))
                        m == DigitsValue(fm)
                        y == DigitsValue(fy)
                    IN IF y >= 1 /\ d <= DaysInMonth(y, m)
                       THEN [ok |-> TRUE, day |-> Ordinal(y, m, d), sec |-> 0]
                       ELSE NoDate
               ELSE NoDate

common_formats == <<"%d/%m/%Y", "%Y-%m-%d", "%d-%m-%Y", "%Y/%m/%d">>

RECURSIVE TryFormats(_, _)
TryFormats(s, fmts) ==
    IF fmts = <<>> THEN NoDate
    ELSE LET r == Strptime(s, Head(fmts))
         IN IF r.ok THEN r ELSE TryFormats(s, Tail(fmts))

(***************************************************************************)
(* _parse_fecha                                                            *)
(***************************************************************************)
(* the fallbacks tried before the configured format *)
ParseFecha_FallbacksFirst(fecha, cfg) ==
    IF IsBlank(fecha) THEN NoDate
    ELSE IF fecha.t = "datetime"
         THEN [ok |-> TRUE, day |-> Ordinal(fecha.y, fecha.m, fecha.d), sec |-> fecha.sec]
         ELSE TryFormats(Strip(fecha.s), common_formats \o <<cfg.fecha_format>>)

ParseFecha(fecha, cfg) ==
    IF IsBlank(fecha) THEN NoDate
    ELSE IF fecha.t = "datetime"
         THEN [ok |-> TRUE, day |-> Ordinal(fecha.y, fecha.m, fecha.d), sec |-> fecha.sec]
         ELSE TryFormats(Strip(fecha.s), <<cfg.fecha_format>> \o common_formats)

(***************************************************************************)
(* load_bank_excel: the frame keeps each surviving row under its original  *)
(* index label (its position in the sheet).  A row of a frame is held as   *)
(* its index label and its normalized columns; the raw columns are those   *)
(* of the sheet row (or table row) with that label.                        *)
(***************************************************************************)
column_mapping == [fecha |-> "Fecha", cuit |-> "CUIT", monto |-> "Importe"]

(* the column check left out *)
MissingCols_Unchecked(xl) == {}

(* missing_cols *)
MissingCols(xl) == {column_mapping[k] : k \in DOMAIN column_mapping} \ xl.columns

NormalizeBankRow(xl, i, cfg) ==
    [idx |-> i - 1,
     cuit_norm |-> NormalizeCuit(xl.rows[i].cuit),
     monto_norm |-> NormalizeMonto(xl.rows[i].monto, cfg),
     fecha_norm |-> ParseFecha(xl.rows[i].fecha, cfg)]

(* dropna(subset=['fecha_norm', 'cuit_norm']): cuit_norm is a string, never NaN *)
KeptByDropna(row) == row.fecha_norm.ok

(* df[df['monto_norm'] > 0] *)
KeptByMontoFilter(row) == row.monto_norm > 0

KeepBankRow(row) == KeptByDropna(row) /\ KeptByMontoFilter(row)

LoadBankExcel(xl, cfg) ==
    SelectSeq([i \in 1..Len(xl.rows) |-> NormalizeBankRow(xl, i, cfg)], KeepBankRow)

(***************************************************************************)
(* load_comprobantes_from_db: every row of the table, in the order the     *)
(* query returns them (the SELECT has no ORDER BY), none filtered.         *)
(***************************************************************************)
NormalizeComprobante(db, order, i, cfg) ==
    LET c == db[order[i]]
    IN [idx |-> i - 1, id |-> order[i], conciliado |-> c.conciliado,
        monto_norm |-> NormalizeMonto(c.monto, cfg),
        fecha_norm |-> ParseFecha(c.fecha_transferencia, cfg),
        remitente_id_norm |-> NormalizeCuit(c.remitente_id)]

LoadComprobantes(db, order, cfg) ==
    [i \in 1..Len(order) |-> NormalizeComprobante(db, order, i, cfg)]

(***************************************************************************)
(* match_records                                                           *)
(***************************************************************************)
Abs(x) == IF x < 0 THEN 0 - x ELSE x

(* timedelta.days of (a - b): the floor of the difference in days *)
TimedeltaDays(a, b) == (a.day - b.day) - (IF a.sec < b.sec THEN 1 ELSE 0)

(* the skip of matched receipts left out *)
AlreadyMatched_Never(idx_comp, matched_comprobantes_idx) == FALSE

AlreadyMatched(idx_comp, matched_comprobantes_idx) == idx_comp \in matched_comprobantes_idx

CuitMatch(row_banco, row_comp) == row_banco.cuit_norm = row_comp.remitente_id_norm

FechaDiff(row_banco, row_comp) == Abs(TimedeltaDays(row_comp.fecha_norm, row_banco.fecha_norm))

(* the date bound taken as exclusive *)
FechaMatch_Strict(row_banco, row_comp, cfg) ==
    IF row_comp.fecha_norm.ok /\ row_banco.fecha_norm.ok
    THEN FechaDiff(row_banco, row_comp) < cfg.fecha_dias
    ELSE FALSE

FechaMatch(row_banco, row_comp, cfg) ==
    IF row_comp.fecha_norm.ok /\ row_banco.fecha_norm.ok
    THEN FechaDiff(row_banco, row_comp) <= cfg.fecha_dias
    ELSE FALSE

MontoDiff(row_banco, row_comp) == Abs(row_comp.monto_norm - row_banco.monto_norm)

MontoMatch(row_banco, row_comp, cfg) == MontoDiff(row_banco, row_comp) <= cfg.monto_diferencia

Eligible(row_banco, row_comp, matched_comprobantes_idx, cfg) ==
    /\ ~AlreadyMatched(row_comp.idx, matched_comprobantes_idx)
    /\ CuitMatch(row_banco, row_comp)
    /\ FechaMatch(row_banco, row_comp, cfg)
    /\ MontoMatch(row_banco, row_comp, cfg)

(* best fit: the eligible receipt nearest in date, the first of them *)
ScanComprobantes_BestFit(row_banco, comps, j, matched_comprobantes_idx, cfg) ==
    LET E == {h \in j..Len(comps) : Eligible(row_banco, comps[h], matched_comprobantes_idx, cfg)}
    IN IF E = {} THEN 0
       ELSE CHOOSE h \in E : \A g \in E :
               \/ FechaDiff(row_banco, comps[h]) < FechaDiff(row_banco, comps[g])
               \/ FechaDiff(row_banco, comps[h]) = FechaDiff(row_banco, comps[g]) /\ h <= g

(* the scan given up at the first free receipt of the same tax-id *)
ScanComprobantes_StopAtCuit(row_banco, comps, j, matched_comprobantes_idx, cfg) ==
    LET S == {h \in j..Len(comps) :
                /\ ~AlreadyMatched(comps[h].idx, matched_comprobantes_idx)
                /\ CuitMatch(row_banco, comps[h])}
    IN IF S = {} THEN 0
       ELSE LET h == CHOOSE x \in S : \A y \in S : x <= y
            IN IF Eligible(row_banco, comps[h], matched_comprobantes_idx, cfg) THEN h ELSE 0

(* the inner loop: the position of the receipt the bank row is paired with, or 0 *)
RECURSIVE ScanComprobantes(_, _, _, _, _)
ScanComprobantes(row_banco, comps, j, matched_comprobantes_idx, cfg) ==
    IF j > Len(comps) THEN 0
    ELSE IF Eligible(row_banco, comps[j], matched_comprobantes_idx, cfg) THEN j
    ELSE ScanComprobantes(row_banco, comps, j + 1, matched_comprobantes_idx, cfg)

MakeMatch(row_banco, row_comp) ==
    [comprobante_id |-> row_comp.id, banco_idx |-> row_banco.idx,
     fecha_diff_dias |-> FechaDiff(row_banco, row_comp),
     monto_diff |-> MontoDiff(row_banco, row_comp),
     banco_row |-> row_banco.idx, comprobante_row |-> row_comp.idx]

(* the outer loop over the bank rows, from row i on *)
RECURSIVE MatchLoop(_, _, _, _, _)
MatchLoop(banco, comps, i, acc, cfg) ==
    IF i > Len(banco) THEN acc
    ELSE LET j == ScanComprobantes(banco[i], comps, 1, acc.matched_comprobantes_idx, cfg)
         IN IF j = 0 THEN MatchLoop(banco, comps, i + 1, acc, cfg)
            ELSE MatchLoop(banco, comps, i + 1,
                     [matches |-> Append(acc.matches, MakeMatch(banco[i], comps[j])),
                      matched_banco_idx |-> acc.matched_banco_idx \cup {banco[i].idx},
                      matched_comprobantes_idx |-> acc.matched_comprobantes_idx \cup {comps[j].idx}],
                     cfg)

(* the rows taken by position (iloc) where the labels were meant *)
NotIn_ByPosition(df, matched_idx) ==
    LET keep == {i \in 1..Len(df) : (i - 1) \notin matched_idx}
        F[i \in 0..Len(df)] == IF i = 0 THEN <<>> ELSE IF i \in keep THEN Append(F[i - 1], df[i]) ELSE F[i - 1]
    IN F[Len(df)]

(* df[~df.index.isin(matched_idx)] *)
NotIn(df, matched_idx) == SelectSeq(df, LAMBDA r : r.idx \notin matched_idx)

MatchRecords(banco, comps, cfg) ==
    LET acc == MatchLoop(banco, comps, 1,
                   [matches |-> <<>>, matched_banco_idx |-> {}, matched_comprobantes_idx |-> {}],
                   cfg)
    IN [matches |-> acc.matches,
        unmatched_banco |-> NotIn(banco, acc.matched_banco_idx),
        unmatched_comprobantes |-> NotIn(comps, acc.matched_comprobantes_idx)]

(***************************************************************************)
(* update_database and generate_report                                     *)
(***************************************************************************)
ComprobanteIds(matches) == [k \in 1..Len(matches) |-> matches[k].comprobante_id]

Range(f) == {f[k] : k \in DOMAIN f}

Observacion == "Conciliado automaticamente"

(* datetime.now(): a timestamp; a column that was never written holds Never *)
Now == "now"

Never == "NULL"

(* the flag written for every row, true only for the rows of the list *)
UpdateStatement_Resync(db, idset, now) ==
    [id \in DOMAIN db |->
        IF id \in idset
        THEN [db[id] EXCEPT !.conciliado = TRUE,
                            !.fecha_conciliacion = now,
                            !.observaciones_conciliacion = Observacion]
        ELSE [db[id] EXCEPT !.conciliado = FALSE]]

(* the UPDATE without its WHERE clause: every row is marked *)
UpdateStatement_NoWhere(db, idset, now) ==
    [id \in DOMAIN db |->
        [db[id] EXCEPT !.conciliado = TRUE,
                       !.fecha_conciliacion = now,
                       !.observaciones_conciliacion = Observacion]]

(* UPDATE comprobantes SET ... WHERE id = ANY(:ids) *)
UpdateStatement(db, idset, now) ==
    [id \in DOMAIN db |->
        IF id \in idset
        THEN [db[id] EXCEPT !.conciliado = TRUE,
                            !.fecha_conciliacion = now,
                            !.observaciones_conciliacion = Observacion]
        ELSE db[id]]

NoTx == [open |-> FALSE, tx |-> FALSE, view |-> <<>>]

(* SessionLocal() *)
OpenSession == [open |-> TRUE, tx |-> FALSE, view |-> <<>>]

(* db.execute(update_query, ...): the change is pending in the session *)
Execute(sess, db, idset, now) == [sess EXCEPT !.tx = TRUE, !.view = UpdateStatement(db, idset, now)]

(* db.commit(): the pending change becomes the table *)
Commit(sess, db) == IF sess.tx THEN sess.view ELSE db

(* db.rollback() and db.close(): a pending change is discarded *)
Rollback(sess) == [sess EXCEPT !.tx = FALSE, !.view = <<>>]

Close(sess) == NoTx

Sheets(res) ==
    (IF res.matches # <<>> THEN {"Conciliados"} ELSE {})
    \cup (IF res.unmatched_banco # <<>> THEN {"Faltantes en BD"} ELSE {})
    \cup (IF res.unmatched_comprobantes # <<>> THEN {"Faltantes en Banco"} ELSE {})

(***************************************************************************)
(* The inputs the model draws from.                                        *)
(***************************************************************************)
S_0103 == <<"0", "1", "/", "0", "3", "/", "2", "0", "2", "4">>
S_0203 == <<"0", "2", "/", "0", "3", "/", "2", "0", "2", "4">>
S_iso0303 == <<"2", "0", "2", "4", "-", "0", "3", "-", "0", "3">>
S_3102 == <<"3", "1", "/", "0", "2", "/", "2", "0", "2", "4">>
S_cuit == <<"2", "0", "1", "2", "3", "4", "5", "6", "7", "8", "9">>
S_cuit_h == <<"2", "0", "-", "1", "2", "3", "4", "5", "6", "7", "8", "-", "9">>
S_1000 == <<"1", "0", "0", "0", ",", "0", "0">>
S_1000_g == <<"1", ".", "0", "0", "0", ",", "0", "0">>
S_1000_01 == <<"$", " ", "1", ".", "0", "0", "0", ",", "0", "1">>
S_sd == <<"s", "/", "d">>

BankRow(f, c, m) == [fecha |-> f, cuit |-> c, monto |-> m]

BankRowChoices ==
    { BankRow(Str(S_0103), Str(S_cuit_h), Str(S_1000_g)),
      BankRow(DateTime(2024, 3, 1, 0), Null, Str(S_1000)),
      BankRow(Str(S_3102), Str(S_cuit), Str(S_sd)) }

Receipt(r, m, f) ==
    [remitente_id |-> r, monto |-> m, fecha_transferencia |-> f,
     conciliado |-> FALSE, fecha_conciliacion |-> Never, observaciones_conciliacion |-> ""]

ReceiptCatalog ==
    << Receipt(Str(S_cuit), Str(S_1000), Str(S_0103)),
       Receipt(Str(S_cuit), Str(S_1000), Str(S_iso0303)),
       Receipt(Str(S_cuit_h), Str(S_1000_01), Str(S_0203)),
       Receipt(Null, Str(S_1000), Str(S_0103)),
       Receipt(Str(S_cuit), Str(S_sd), Null) >>

(* The tables of n rows drawn from the catalog.  Ids are assigned in       *)
(* catalog order: the order in which the rows come back from the query is  *)
(* chosen by the loader, so every scan order of every multiset is covered. *)
StoreChoices ==
    UNION {{[id \in 1..n |-> ReceiptCatalog[pick[id]]] :
              pick \in {p \in [1..n -> DOMAIN ReceiptCatalog] :
                           \A a, b \in 1..n : a < b => p[a] <= p[b]}} :
           n \in 0..NumReceipts}

SeqsUpTo(S, n) == UNION {[1..k -> S] : k \in 0..n}

AllColumns == {"Fecha", "CUIT", "Importe", "Concepto"}

ExcelChoices ==
    {[exists |-> TRUE, columns |-> AllColumns, rows |-> rs] : rs \in SeqsUpTo(BankRowChoices, MaxBankRows)}
    \cup {[exists |-> FALSE, columns |-> {}, rows |-> <<>>],
          [exists |-> TRUE, columns |-> AllColumns \ {"CUIT"}, rows |-> <<>>]}

Config(d, m) ==
    [fecha_format |-> "%d/%m/%Y", decimal_sep |-> ",", thousands_sep |-> ".",
     fecha_dias |-> d, monto_diferencia |-> m]

ConfigChoices == {Config(0, 1), Config(1, 1), Config(1, 0)}

NoConfig == [fecha_format |-> "", decimal_sep |-> "", thousands_sep |-> "",
             fecha_dias |-> 0, monto_diferencia |-> 0]

NoExcel == [exists |-> FALSE, columns |-> {}, rows |-> <<>>]

NoResults == [matches |-> <<>>, unmatched_banco |-> <<>>, unmatched_comprobantes |-> <<>>]

(* message_id=None, and an id_transferencia that is None or empty *)
NoMessageId == ""

NoTransferId == ""

NoCall == [batch |-> <<>>, message_id |-> NoMessageId, committed |-> FALSE]

(* no message processed, no request received, no subprocess started *)
NoMessage == [id |-> NoMessageId, path |-> "none", img_file |-> "none", extracted |-> <<>>]

NoProcess == 0

InitIntake ==
    /\ last_message = NoMessage
    /\ requests = <<>>
    /\ spawned = <<>>
    /\ process = NoProcess
    /\ is_running = FALSE

RowOrders(S) == {f \in [1..Cardinality(S) -> S] : \A a, b \in DOMAIN f : a # b => f[a] # f[b]}

(***************************************************************************)
(* The state machine.  store is the committed comprobantes table; session  *)
(* is self.db; pc is the stage the run is at; executed lists the stages    *)
(* the run has entered; outcome is how the last run ended; report is the   *)
(* set of sheets written; pre is the table as it was when the run began;   *)
(* exit_code is the exit status of the process once pc is "exit".          *)
(***************************************************************************)
Init ==
    /\ store \in StoreChoices
    /\ session = NoTx
    /\ pc = "idle"
    /\ config = NoConfig
    /\ excel = NoExcel
    /\ df_banco = <<>>
    /\ df_comprobantes = <<>>
    /\ results = NoResults
    /\ executed = <<>>
    /\ outcome = "none"
    /\ report = {}
    /\ pre = store
    /\ exit_code = 0
    /\ history = <<>>
    /\ fn = "none" /\ raw = Null /\ norm = Null /\ origin = Null
    /\ comprobantes = <<>> /\ mensajes = <<>> /\ last_call = NoCall
    /\ InitIntake

(* run_reconciliation's handlers: sys.exit(1); a normal return exits 0 *)
SysExit_Zero(code) == exit_code' = 0

SysExit(code) == exit_code' = code

(* an exception leaves reconcile (finally: self.db.close()) and reaches the *)
(* handlers of run_reconciliation                                          *)
Raise(exc) ==
    /\ outcome' = exc
    /\ pc' = "exit"
    /\ session' = Close(session)
    /\ SysExit(1)

(* run_reconciliation up to the check of the spreadsheet path *)
RunReconciliation ==
    /\ pc = "idle"
    /\ pre' = store
    /\ excel' \in ExcelChoices
    /\ IF ~excel'.exists
       THEN /\ outcome' = "ArchivoNoEncontrado"
            /\ pc' = "exit"
            /\ SysExit(1)
       ELSE /\ outcome' = "running"
            /\ pc' = "construct"
            /\ UNCHANGED exit_code
    /\ UNCHANGED <<store, session, config, df_banco, df_comprobantes, results,
                   executed, report>>
    /\ UNCHANGED others

(* BankReconciliation(config_path) followed by the call of reconcile; the  *)
(* spreadsheet may have been removed since its path was checked            *)
Construct ==
    /\ pc = "construct"
    /\ \/ /\ Raise("FileNotFoundError")
          /\ UNCHANGED <<config, excel>>
       \/ /\ config' \in ConfigChoices
          /\ excel' \in {excel, NoExcel}
          /\ pc' = "load_bank"
          /\ session' = OpenSession
          /\ UNCHANGED <<outcome, exit_code>>
    /\ UNCHANGED <<store, df_banco, df_comprobantes, results, executed, report, pre>>
    /\ UNCHANGED others

LoadBank ==
    /\ pc = "load_bank"
    /\ executed' = Append(executed, "LOAD_BANK")
    /\ IF ~excel.exists
       THEN Raise("FileNotFoundError") /\ UNCHANGED df_banco
       ELSE IF MissingCols(excel) # {}
       THEN Raise("ValueError") /\ UNCHANGED df_banco
       ELSE /\ df_banco' = LoadBankExcel(excel, config)
            /\ pc' = "load_receipts"
            /\ UNCHANGED <<outcome, session, exit_code>>
    /\ UNCHANGED <<store, config, excel, df_comprobantes, results, report, pre>>
    /\ UNCHANGED others

LoadReceipts ==
    /\ pc = "load_receipts"
    /\ executed' = Append(executed, "LOAD_RECEIPTS")
    /\ \/ /\ \E order \in RowOrders(DOMAIN store) :
                df_comprobantes' = LoadComprobantes(store, order, config)
          /\ pc' = "match"
          /\ UNCHANGED <<outcome, session, exit_code>>
       \/ Raise("OperationalError") /\ UNCHANGED df_comprobantes
    /\ UNCHANGED <<store, config, excel, df_banco, results, report, pre>>
    /\ UNCHANGED others

Match ==
    /\ pc = "match"
    /\ executed' = Append(executed, "MATCH")
    /\ results' = MatchRecords(df_banco, df_comprobantes, config)
    /\ pc' = "persist"
    /\ UNCHANGED <<store, session, config, excel, df_banco, df_comprobantes,
                   outcome, report, pre, exit_code>>
    /\ UNCHANGED others

(* one UPDATE and one commit per receipt: a failure after the first row *)
PersistExecute_RowByRow ==
    /\ pc = "persist"
    /\ executed' = Append(executed, "PERSIST")
    /\ IF results.matches = <<>>
       THEN pc' = "report" /\ UNCHANGED <<store, session, outcome, exit_code>>
       ELSE \/ /\ store' = UpdateStatement(store, Range(ComprobanteIds(results.matches)), Now)
               /\ pc' = "report"
               /\ UNCHANGED <<session, outcome, exit_code>>
            \/ /\ store' = UpdateStatement(store, {results.matches[1].comprobante_id}, Now)
               /\ Raise("PersistenceError")
    /\ UNCHANGED <<config, excel, df_banco, df_comprobantes, results, report, pre>>
    /\ UNCHANGED others

(* an empty match list ends the run as done, without report or summary *)
PersistExecute_StopWhenEmpty ==
    /\ pc = "persist"
    /\ executed' = Append(executed, "PERSIST")
    /\ IF results.matches = <<>>
       THEN /\ outcome' = "ok"
            /\ pc' = "exit"
            /\ session' = Close(session)
            /\ SysExit(0)
       ELSE \/ /\ session' = Execute(session, store, Range(ComprobanteIds(results.matches)), Now)
               /\ pc' = "commit"
               /\ UNCHANGED <<outcome, exit_code>>
            \/ Raise("PersistenceError")
    /\ UNCHANGED <<store, config, excel, df_banco, df_comprobantes, results,
                   report, pre>>
    /\ UNCHANGED others

(* update_database up to db.execute *)
PersistExecute ==
    /\ pc = "persist"
    /\ executed' = Append(executed, "PERSIST")
    /\ IF results.matches = <<>>
       THEN pc' = "report" /\ UNCHANGED <<session, outcome, exit_code>>
       ELSE \/ /\ session' = Execute(session, store, Range(ComprobanteIds(results.matches)), Now)
               /\ pc' = "commit"
               /\ UNCHANGED <<outcome, exit_code>>
            \/ Raise("PersistenceError")
    /\ UNCHANGED <<store, config, excel, df_banco, df_comprobantes, results,
                   report, pre>>
    /\ UNCHANGED others

(* the except block rolls back and logs, and does not re-raise *)
PersistCommit_Swallow ==
    /\ pc = "commit"
    /\ \/ /\ store' = Commit(session, store)
          /\ session' = Rollback(session)
          /\ pc' = "report"
          /\ UNCHANGED <<outcome, exit_code>>
       \/ /\ session' = Rollback(session)
          /\ pc' = "report"
          /\ UNCHANGED <<store, outcome, exit_code>>
    /\ UNCHANGED <<config, excel, df_banco, df_comprobantes, results, executed,
                   report, pre>>
    /\ UNCHANGED others

(* update_database from db.commit on *)
PersistCommit ==
    /\ pc = "commit"
    /\ \/ /\ store' = Commit(session, store)
          /\ session' = Rollback(session)
          /\ pc' = "report"
          /\ UNCHANGED <<outcome, exit_code>>
       \/ Raise("PersistenceError") /\ UNCHANGED store
    /\ UNCHANGED <<config, excel, df_banco, df_comprobantes, results, executed,
                   report, pre>>
    /\ UNCHANGED others

(* closing the ExcelWriter saves the workbook: openpyxl refuses one with   *)
(* no sheet (IndexError: At least one sheet must be visible)               *)
WorkbookSaves(sheets) == sheets # {}

(* generate_report; the write can also fail for the path it is given *)
Report ==
    /\ pc = "report"
    /\ executed' = Append(executed, "REPORT")
    /\ IF ~WorkbookSaves(Sheets(results))
       THEN Raise("IndexError") /\ UNCHANGED report
       ELSE \/ /\ report' = Sheets(results)
               /\ pc' = "summary"
               /\ UNCHANGED <<outcome, session, exit_code>>
            \/ Raise("ReportError") /\ UNCHANGED report
    /\ UNCHANGED <<store, config, excel, df_banco, df_comprobantes, results, pre>>
    /\ UNCHANGED others

(* print_summary, the return of reconcile and of run_reconciliation *)
Summary ==
    /\ pc = "summary"
    /\ executed' = Append(executed, "SUMMARY")
    /\ outcome' = "ok"
    /\ pc' = "exit"
    /\ session' = Close(session)
    /\ SysExit(0)
    /\ UNCHANGED <<store, config, excel, df_banco, df_comprobantes, results,
                   report, pre>>
    /\ UNCHANGED others

(* the process that ran reconcile ends: its objects are gone, the table stays *)
ExitProcess ==
    /\ pc = "exit"
    /\ pc' = "idle"
    /\ config' = NoConfig
    /\ excel' = NoExcel
    /\ df_banco' = <<>>
    /\ df_comprobantes' = <<>>
    /\ results' = NoResults
    /\ executed' = <<>>
    /\ outcome' = "none"
    /\ report' = {}
    /\ pre' = store
    /\ exit_code' = 0
    /\ UNCHANGED <<store, session>>
    /\ UNCHANGED others

Next ==
    \/ RunReconciliation
    \/ Construct
    \/ LoadBank
    \/ LoadReceipts
    \/ Match
    \/ PersistExecute
    \/ PersistCommit
    \/ Report
    \/ Summary
    \/ ExitProcess

Spec == Init /\ [][Next]_vars

(***************************************************************************)
(* Consecutive runs.  A run of reconcile that meets no error, from         *)
(* load_bank_excel to print_summary, taken as one step: the same loaders,  *)
(* matcher and UPDATE as above.  Each run is given the same spreadsheet    *)
(* and configuration; nothing else writes to the table between the runs.   *)
(* history holds, for each completed run, the three partitions of its      *)
(* report (by receipt id and bank row) and the receipts marked after it.   *)
(***************************************************************************)
Reconcile(db, xl, cfg, order) ==
    LET banco == LoadBankExcel(xl, cfg)
        comps == LoadComprobantes(db, order, cfg)
        res == MatchRecords(banco, comps, cfg)
        ids == Range(ComprobanteIds(res.matches))
    IN [df_banco |-> banco, df_comprobantes |-> comps, results |-> res,
        store |-> IF res.matches = <<>> THEN db
                  ELSE Commit(Execute(OpenSession, db, ids, Now), db)]

Conciliados(db) == {id \in DOMAIN db : db[id].conciliado}

RunRecord(res, db) ==
    [matches |-> {<<res.matches[k].comprobante_id, res.matches[k].banco_idx>> : k \in 1..Len(res.matches)},
     unmatched_banco |-> {res.unmatched_banco[k].idx : k \in 1..Len(res.unmatched_banco)},
     unmatched_comprobantes |-> {res.unmatched_comprobantes[k].id : k \in 1..Len(res.unmatched_comprobantes)},
     conciliados |-> Conciliados(db)]

InitRuns ==
    /\ store \in StoreChoices
    /\ excel \in {x \in ExcelChoices : x.exists /\ MissingCols(x) = {}}
    /\ config \in ConfigChoices
    /\ history = <<>>
    /\ session = NoTx
    /\ pc = "idle"
    /\ df_banco = <<>>
    /\ df_comprobantes = <<>>
    /\ results = NoResults
    /\ executed = <<>>
    /\ outcome = "none"
    /\ report = {}
    /\ pre = store
    /\ exit_code = 0
    /\ fn = "none" /\ raw = Null /\ norm = Null /\ origin = Null
    /\ comprobantes = <<>> /\ mensajes = <<>> /\ last_call = NoCall
    /\ InitIntake

SuccessfulRun ==
    /\ Len(history) < MaxConsecutiveRuns
    /\ \E order \in RowOrders(DOMAIN store) :
          \E run \in {Reconcile(store, excel, config, order)} :
             /\ WorkbookSaves(Sheets(run.results))
             /\ df_banco' = run.df_banco
             /\ df_comprobantes' = run.df_comprobantes
             /\ results' = run.results
             /\ store' = run.store
             /\ report' = Sheets(run.results)
             /\ history' = Append(history, RunRecord(run.results, run.store))
    /\ pre' = store
    /\ outcome' = "ok"
    /\ UNCHANGED <<session, pc, config, excel, executed, exit_code>>
    /\ UNCHANGED <<normalizer_vars, exporter_vars, intake_vars>>

NextRuns == SuccessfulRun

SpecRuns == InitRuns /\ [][NextRuns]_vars

(***************************************************************************)
(* The normalizers on their own.  fn names the normalizer, raw is the      *)
(* value it is given, norm what it returns, and origin what raw stands for *)
(* and how it is written: the digits of a tax-id; an amount with its       *)
(* grouping and decoration; a calendar date with the format it is rendered *)
(* in and the configured primary format; or a text that is none of these.  *)
(***************************************************************************)
InsertAt(s, i, ch) == SubSeq(s, 1, i) \o <<ch>> \o SubSeq(s, i + 1, Len(s))

DeleteAt(s, i) == SubSeq(s, 1, i - 1) \o SubSeq(s, i + 1, Len(s))

CuitDigits == {"2", "7"}

CuitSeparators == {"-", ".", " "}

(* an amount written in the locale of the configuration: ',' before the    *)
(* two decimals, '.' between groups of three digits when grouped           *)
RECURSIVE GroupThousands(_)
GroupThousands(ip) ==
    IF Len(ip) <= 3 THEN ip
    ELSE GroupThousands(SubSeq(ip, 1, Len(ip) - 3)) \o <<".">> \o SubSeq(ip, Len(ip) - 2, Len(ip))

WriteMonto(o) ==
    o.prefix
    \o (IF o.kind = "amount"
        THEN (IF o.grouped THEN GroupThousands(o.int) ELSE o.int) \o <<",">> \o o.frac
        ELSE o.s)
    \o o.suffix

AmountChoices ==
    { [int |-> <<"1", "0", "0", "0">>, frac |-> <<"5", "0">>],
      [int |-> <<"1", "5", "0", "0", "0">>, frac |-> <<"0", "0">>],
      [int |-> <<"9", "9", "9">>, frac |-> <<"9", "9">>],
      [int |-> <<"1", "2", "3", "4", "5", "6", "7">>, frac |-> <<"0", "5">>] }

TextMontoChoices ==
    { S_sd, <<"a", "b", "c">>, <<"-">>, <<"1", ",", "2", ",", "3">>,
      <<"n", "a", "n">>, <<"N", "a", "N">>, <<"i", "n", "f">> }

Prefixes == {<<>>, <<"$">>, <<"$", " ">>, <<" ">>}

Suffixes == {<<>>, <<" ">>, <<" ", "$">>}

MontoConfig == Config(0, 1)

(* datetime.strftime for the formats above *)
DigitChar(n) == CHOOSE c \in Digits : DigitVal(c) = n

TwoDigits(n) == <<DigitChar(n \div 10), DigitChar(n % 10)>>

FourDigits(n) == TwoDigits(n \div 100) \o TwoDigits(n % 100)

Strftime(y, m, d, name) ==
    LET fmt == FormatOf(name)
    IN CASE fmt.order = "dmY" -> TwoDigits(d) \o <<fmt.sep>> \o TwoDigits(m) \o <<fmt.sep>> \o FourDigits(y)
         [] fmt.order = "Ymd" -> FourDigits(y) \o <<fmt.sep>> \o TwoDigits(m) \o <<fmt.sep>> \o TwoDigits(d)
         [] fmt.order = "mdY" -> TwoDigits(m) \o <<fmt.sep>> \o TwoDigits(d) \o <<fmt.sep>> \o FourDigits(y)

FallbackFormats == {"%d/%m/%Y", "%Y-%m-%d", "%d-%m-%Y", "%Y/%m/%d"}

PrimaryFormats == FallbackFormats \cup {"%m/%d/%Y"}

DateChoices ==
    {dt \in [y : {2023, 2024}, m : {1, 2, 3, 12}, d : {1, 5, 12, 13, 29, 31}] :
        dt.d <= DaysInMonth(dt.y, dt.m)}

TextFechaChoices ==
    { S_sd, S_3102, <<"0", "1", ".", "0", "3", ".", "2", "0", "2", "4">>,
      <<"2", "0", "2", "4", "-", "1", "3", "-", "0", "1">>,
      <<"0", "1", "/", "0", "3", "/", "2", "4">> }

WriteFecha(o) ==
    IF o.kind = "date" THEN Strftime(o.y, o.m, o.d, o.fmt) ELSE o.s

FechaConfig(primary) == [Config(0, 1) EXCEPT !.fecha_format = primary]

InitNormalizer ==
    /\ \/ /\ fn = "cuit"
          /\ \E digits \in SeqsUpTo(CuitDigits, MaxCuitLen) :
                /\ origin = [kind |-> "cuit", s |-> digits]
                /\ raw \in {Str(digits)} \cup (IF digits = <<>> THEN {Null} ELSE {})
          /\ norm = NormalizeCuit(raw)
       \/ /\ fn = "monto"
          /\ \/ \E a \in AmountChoices :
                   origin = [kind |-> "amount", int |-> a.int, frac |-> a.frac,
                             grouped |-> FALSE, prefix |-> <<>>, suffix |-> <<>>]
             \/ \E t \in TextMontoChoices :
                   origin = [kind |-> "text", s |-> t, prefix |-> <<>>, suffix |-> <<>>]
          /\ raw = Str(WriteMonto(origin))
          /\ norm = NormalizeMontoFloat(raw, MontoConfig)
       \/ /\ fn = "fecha"
          /\ \/ \E dt \in DateChoices, primary \in PrimaryFormats, f \in FallbackFormats :
                   origin = [kind |-> "date", y |-> dt.y, m |-> dt.m, d |-> dt.d,
                             fmt |-> f, primary |-> primary]
             \/ \E t \in TextFechaChoices, primary \in PrimaryFormats :
                   origin = [kind |-> "text", s |-> t, primary |-> primary]
          /\ raw = Str(WriteFecha(origin))
          /\ norm = ParseFecha(raw, FechaConfig(origin.primary))
    /\ store = <<>>
    /\ session = NoTx
    /\ pc = "idle"
    /\ config = NoConfig
    /\ excel = NoExcel
    /\ df_banco = <<>>
    /\ df_comprobantes = <<>>
    /\ results = NoResults
    /\ executed = <<>>
    /\ outcome = "none"
    /\ report = {}
    /\ pre = store
    /\ exit_code = 0
    /\ history = <<>>
    /\ comprobantes = <<>> /\ mensajes = <<>> /\ last_call = NoCall
    /\ InitIntake

(* the same tax-id with one more hyphen, dot or space somewhere *)
InsertSeparator ==
    /\ fn = "cuit"
    /\ raw.t = "str"
    /\ Len(raw.s) < MaxCuitLen
    /\ \E i \in 0..Len(raw.s), ch \in CuitSeparators : raw' = Str(InsertAt(raw.s, i, ch))
    /\ norm' = NormalizeCuit(raw')
    /\ UNCHANGED <<fn, origin>>
    /\ UNCHANGED <<reconcile_vars, history, exporter_vars, intake_vars>>

(* the same tax-id with one hyphen, dot or space fewer *)
DeleteSeparator ==
    /\ fn = "cuit"
    /\ raw.t = "str"
    /\ \E i \in 1..Len(raw.s) :
          /\ raw.s[i] \in CuitSeparators
          /\ raw' = Str(DeleteAt(raw.s, i))
    /\ norm' = NormalizeCuit(raw')
    /\ UNCHANGED <<fn, origin>>
    /\ UNCHANGED <<reconcile_vars, history, exporter_vars, intake_vars>>

(* the same amount with or without its thousands grouping *)
Regroup ==
    /\ fn = "monto"
    /\ origin.kind = "amount"
    /\ origin' = [origin EXCEPT !.grouped = ~origin.grouped]
    /\ raw' = Str(WriteMonto(origin'))
    /\ norm' = NormalizeMontoFloat(raw', MontoConfig)
    /\ UNCHANGED fn
    /\ UNCHANGED <<reconcile_vars, history, exporter_vars, intake_vars>>

(* the same amount or text with another currency symbol and whitespace *)
Decorate ==
    /\ fn = "monto"
    /\ \E pre_ \in Prefixes, suf \in Suffixes :
          /\ <<pre_, suf>> # <<origin.prefix, origin.suffix>>
          /\ origin' = [origin EXCEPT !.prefix = pre_, !.suffix = suf]
    /\ raw' = Str(WriteMonto(origin'))
    /\ norm' = NormalizeMontoFloat(raw', MontoConfig)
    /\ UNCHANGED fn
    /\ UNCHANGED <<reconcile_vars, history, exporter_vars, intake_vars>>

(* the same calendar date rendered in another fallback format *)
Rerender ==
    /\ fn = "fecha"
    /\ origin.kind = "date"
    /\ \E f \in FallbackFormats \ {origin.fmt} : origin' = [origin EXCEPT !.fmt = f]
    /\ raw' = Str(WriteFecha(origin'))
    /\ norm' = ParseFecha(raw', FechaConfig(origin.primary))
    /\ UNCHANGED fn
    /\ UNCHANGED <<reconcile_vars, history, exporter_vars, intake_vars>>

NextNormalizer ==
    \/ InsertSeparator
    \/ DeleteSeparator
    \/ Regroup
    \/ Decorate
    \/ Rerender

SpecNormalizer == InitNormalizer /\ [][NextNormalizer]_vars

(***************************************************************************)
(* DbExporter (src/src/db_exporter.py).  comprobantes and mensajes are the *)
(* two tables, in insertion order (a row's id is its position); last_call  *)
(* is the last call of exportar or exportar_lista: its list, its           *)
(* message_id and whether it was committed.                                *)
(***************************************************************************)
Comp(t, b, m) == [id_transferencia |-> t, banco |-> b, monto |-> m]

TransferIds == {"T1", NoTransferId}

Bancos == {"Galicia", "Nacion"}

Montos == {"100", "200"}

(* the same transfer seen by two banks or with two amounts, and a receipt  *)
(* on which no id was read                                                 *)
CompChoices ==
    {c \in {Comp(t, b, m) : t \in TransferIds, b \in Bancos, m \in Montos} :
        (c.banco = "Nacion" \/ c.id_transferencia = NoTransferId) => c.monto = "100"}

MessageIds == {"wamid1", "wamid2"}

(* Mensaje.message_id: a string, or str(uuid.uuid4()) with n telling the   *)
(* generated values apart                                                  *)
MessageId(str) == [s |-> str, n |-> 0]

Uuid4(n) == [s |-> "uuid4", n |-> n]

(* get_or_create_mensaje: the mensajes table after the call, and the id of *)
(* the row found or created                                                *)
GetOrCreateMensaje(msgs, message_id) ==
    IF \E k \in 1..Len(msgs) : msgs[k] = message_id
    THEN [mensajes |-> msgs,
          id |-> CHOOSE k \in 1..Len(msgs) :
                    msgs[k] = message_id /\ \A h \in 1..(k - 1) : msgs[h] # message_id]
    ELSE [mensajes |-> Append(msgs, message_id), id |-> Len(msgs) + 1]

Row(comp, mensaje_id) ==
    [id_transferencia |-> comp.id_transferencia, banco |-> comp.banco,
     monto |-> comp.monto, mensaje_id |-> mensaje_id]

(* db.query(Comprobante).filter(id_transferencia ==, banco ==, monto ==).first() *)
Existe(tbl, comp) ==
    \E k \in 1..Len(tbl) :
        /\ tbl[k].id_transferencia = comp.id_transferencia
        /\ tbl[k].banco = comp.banco
        /\ tbl[k].monto = comp.monto

(* the branch for a message_id: every receipt is added under the message *)
RECURSIVE AddAll(_, _, _)
AddAll(tbl, comps, mensaje_id) ==
    IF comps = <<>> THEN tbl
    ELSE AddAll(Append(tbl, Row(Head(comps), mensaje_id)), Tail(comps), mensaje_id)

(* the branch without message_id: the loop over the list *)
RECURSIVE DedupLoop(_, _, _, _)
DedupLoop(tbl, msgs, comps, ids_en_lote) ==
    IF comps = <<>> THEN [comprobantes |-> tbl, mensajes |-> msgs]
    ELSE LET comp == Head(comps)
         IN IF comp.id_transferencia # NoTransferId
               /\ (comp.id_transferencia \in ids_en_lote \/ Existe(tbl, comp))
            THEN DedupLoop(tbl, msgs, Tail(comps), ids_en_lote)
            ELSE LET msg_id == IF comp.id_transferencia # NoTransferId
                               THEN MessageId(comp.id_transferencia)
                               ELSE Uuid4(Len(msgs) + 1)
                     m == GetOrCreateMensaje(msgs, msg_id)
                 IN DedupLoop(Append(tbl, Row(comp, m.id)), m.mensajes, Tail(comps),
                              IF comp.id_transferencia # NoTransferId
                              THEN ids_en_lote \cup {comp.id_transferencia}
                              ELSE ids_en_lote)

(* exportar_lista up to db.commit() *)
ExportarLista(tbl, msgs, comps, message_id) ==
    IF comps = <<>> THEN [comprobantes |-> tbl, mensajes |-> msgs]
    ELSE IF message_id # NoMessageId
    THEN LET m == GetOrCreateMensaje(msgs, MessageId(message_id))
         IN [comprobantes |-> AddAll(tbl, comps, m.id), mensajes |-> m.mensajes]
    ELSE DedupLoop(tbl, msgs, comps, {})

InitExporter ==
    /\ comprobantes = <<>>
    /\ mensajes = <<>>
    /\ last_call = NoCall
    /\ InitIntake
    /\ store = <<>>
    /\ session = NoTx
    /\ pc = "idle"
    /\ config = NoConfig
    /\ excel = NoExcel
    /\ df_banco = <<>>
    /\ df_comprobantes = <<>>
    /\ results = NoResults
    /\ executed = <<>>
    /\ outcome = "none"
    /\ report = {}
    /\ pre = store
    /\ exit_code = 0
    /\ history = <<>>
    /\ fn = "none" /\ raw = Null /\ norm = Null /\ origin = Null

(* db.commit() makes the added rows the tables; an exception is printed    *)
(* and rolled back, and the call returns with the tables as they were      *)
Call(comps, message_id) ==
    LET after == ExportarLista(comprobantes, mensajes, comps, message_id)
    IN \/ /\ comprobantes' = after.comprobantes
          /\ mensajes' = after.mensajes
          /\ last_call' = [batch |-> comps, message_id |-> message_id, committed |-> TRUE]
       \/ /\ comps # <<>>
          /\ UNCHANGED <<comprobantes, mensajes, last_call>>

(* exportar(db, comprobante, message_id), as process_new_message calls it *)
Exportar ==
    \E comp \in CompChoices, message_id \in MessageIds \cup {NoMessageId} :
        /\ Len(comprobantes) + 1 <= MaxStored
        /\ Call(<<comp>>, message_id)
        /\ UNCHANGED <<reconcile_vars, history, normalizer_vars, launcher_vars, requests, last_message>>

(* exportar_lista(db, comprobantes, message_id), as run_extraction calls it *)
ExportarListaCall ==
    \E comps \in SeqsUpTo(CompChoices, MaxBatch), message_id \in MessageIds \cup {NoMessageId} :
        /\ Len(comprobantes) + Len(comps) <= MaxStored
        /\ Call(comps, message_id)
        /\ UNCHANGED <<reconcile_vars, history, normalizer_vars, launcher_vars, requests, last_message>>

NextExporter ==
    \/ Exportar
    \/ ExportarListaCall

SpecExporter == InitExporter /\ [][NextExporter]_vars

(***************************************************************************)
(* The extraction mapping (src/src/gemini_processor.py) and the Concepto   *)
(* parser (src/src/reconciliator.py).                                      *)
(***************************************************************************)
(* re.sub(r'[^...]', '', s): the characters of s that are in chars *)
RECURSIVE Keep(_, _)
Keep(s, chars) ==
    IF s = <<>> THEN <<>>
    ELSE IF Head(s) \in chars THEN <<Head(s)>> \o Keep(Tail(s), chars)
         ELSE Keep(Tail(s), chars)

Contains(s, ch) == \E i \in 1..Len(s) : s[i] = ch

(* str.find(ch) for a character that occurs in s, counted from 1 *)
Find(s, ch) == CHOOSE i \in 1..Len(s) : s[i] = ch /\ \A j \in 1..(i - 1) : s[j] # ch

Count(s, ch) == Cardinality({i \in 1..Len(s) : s[i] = ch})

(* _limpiar_monto: None, or the amount as a string with '.' before the     *)
(* decimals and no grouping                                                *)
LimpiarMonto(monto_raw) ==
    IF IsBlank(monto_raw) THEN Null
    ELSE LET s == Keep(Strip(monto_raw.s), Digits \cup {".", ",", "-"})
         IN IF s = <<>> THEN Null
            ELSE IF Contains(s, ".") /\ Contains(s, ",")
            THEN IF Find(s, ".") < Find(s, ",")
                 THEN Str(Replace(Remove(s, {"."}), ",", "."))
                 ELSE Str(Remove(s, {","}))
            ELSE IF Contains(s, ",") THEN Str(Replace(s, ",", "."))
            ELSE IF Contains(s, ".")
            THEN IF Count(s, ".") > 1 THEN Str(Remove(s, {"."}))
                 ELSE IF Len(s) - Find(s, ".") = 3 THEN Str(Remove(s, {"."}))
                      ELSE Str(s)
            ELSE Str(s)

(* datos.get("remitente", {}) or {}, then .get("nombre_completo") *)
NombreCompleto(persona) == IF persona.t = "null" THEN Null ELSE persona.nombre_completo

Persona(nombre) == [t |-> "dict", nombre_completo |-> nombre]

(* _mapear_a_comprobante *)
MapearAComprobante(datos, ruta_imagen) ==
    [imagen_path |-> ruta_imagen,
     fecha_transferencia |-> datos.fecha,
     banco |-> datos.banco_emisor,
     monto |-> LimpiarMonto(datos.monto),
     id_transferencia |-> datos.codigo_operacion,
     remitente_nombre |-> NombreCompleto(datos.remitente),
     destinatario_nombre |-> NombreCompleto(datos.destinatario)]

(* the part of str.split("-") at position k, counted from 1 *)
RECURSIVE Segment(_, _)
Segment(s, k) ==
    IF ~Contains(s, "-") THEN (IF k = 1 THEN s ELSE <<>>)
    ELSE IF k = 1 THEN SubSeq(s, 1, Find(s, "-") - 1)
         ELSE Segment(SubSeq(s, Find(s, "-") + 1, Len(s)), k - 1)

NoneValue == [kind |-> "None", v |-> 0]

IntValue(n) == [kind |-> "int", v |-> n]

(* _extract_cuit_bank_excel: cuit_norm is computed and logged, and the     *)
(* function ends without returning it; the only return with a value is the *)
(* one for a string without digits                                         *)
ExtractCuitBankExcel(cuit) ==
    IF cuit.t = "str"
    THEN LET cuit_norm == IF Contains(cuit.s, "-")
                          THEN Keep(Segment(cuit.s, 2), Digits)
                          ELSE Keep(cuit.s, Digits)
         IN IF cuit_norm # <<>> THEN NoneValue ELSE IntValue(0)
    ELSE NoneValue

(* the inputs *)
ConceptoChars == {"2", "7", "-", "x"}

ModelMontos ==
    {Str(WriteMonto([kind |-> "amount", int |-> a.int, frac |-> a.frac,
                     grouped |-> g, prefix |-> pre_, suffix |-> <<>>])) :
        a \in AmountChoices, g \in BOOLEAN, pre_ \in {<<>>, <<"$", " ">>}}
    \cup {Null, Str(<<"1", ".", "5", "0", "0">>), Str(<<"1", "0", ".", "5", "0">>),
          Str(<<"1", ",", "5", "0", "0", ".", "0", "0">>), Str(<<"1", ".", "0", "0", "0", ".", "0", "0", "0">>)}

Datos(banco, monto, codigo, remitente, destinatario) ==
    [banco_emisor |-> banco, fecha |-> Str(<<"2", "0", "2", "4", "/", "0", "3", "/", "0", "1">>),
     monto |-> monto, codigo_operacion |-> codigo,
     remitente |-> remitente, destinatario |-> destinatario]

DatosChoices ==
    {Datos(b, m, c, r, d) :
        b \in {Str("Mercado Pago"), Null}, m \in ModelMontos, c \in {Str("12345ABC"), Null},
        r \in {Persona(Str("Juan Perez")), Null},
        d \in {Persona(Str("Comercio Badie"))}}

TimeOfDayChoices == {0, 34200, 86399}

(* the bank cell of a movement of a given day: text in the configured      *)
(* format, or a datetime with a time of day                                *)
BankFechaCells(dt) ==
    {Str(Strftime(dt.y, dt.m, dt.d, "%d/%m/%Y"))}
    \cup {DateTime(dt.y, dt.m, dt.d, sec) : sec \in TimeOfDayChoices}

DeltaDates == {dt \in DateChoices : dt.y = 2024 /\ dt.m \in {2, 3} /\ dt.d \in {1, 29}}

InitFunctions ==
    /\ fn = "none" /\ raw = Null /\ norm = Null /\ origin = Null
    /\ store = <<>>
    /\ session = NoTx
    /\ pc = "idle"
    /\ config = NoConfig
    /\ excel = NoExcel
    /\ df_banco = <<>>
    /\ df_comprobantes = <<>>
    /\ results = NoResults
    /\ executed = <<>>
    /\ outcome = "none"
    /\ report = {}
    /\ pre = store
    /\ exit_code = 0
    /\ history = <<>>
    /\ comprobantes = <<>> /\ mensajes = <<>> /\ last_call = NoCall
    /\ InitIntake

(* procesar_comprobante on a well-formed answer of the model *)
MapResponse ==
    /\ \E datos \in DatosChoices :
          /\ fn' = "mapear"
          /\ raw' = datos
          /\ origin' = [kind |-> "response", ruta_imagen |-> "test_img.jpg"]
          /\ norm' = MapearAComprobante(datos, "test_img.jpg")
    /\ UNCHANGED <<reconcile_vars, history, exporter_vars, intake_vars>>

(* _extract_cuit_bank_excel on a cell of the Concepto column *)
ExtractCuit ==
    /\ \E cuit \in {Str(t) : t \in SeqsUpTo(ConceptoChars, MaxConceptoLen)} \cup {Null} :
          /\ fn' = "extract_cuit"
          /\ raw' = cuit
          /\ origin' = [kind |-> "concepto"]
          /\ norm' = ExtractCuitBankExcel(cuit)
    /\ UNCHANGED <<reconcile_vars, history, exporter_vars, intake_vars>>

(* the date test of match_records on a receipt and a bank movement, and on *)
(* the same two dates with the sides exchanged                             *)
DateDelta ==
    /\ \E dc \in DeltaDates, db \in DeltaDates :
          \E cell \in BankFechaCells(db), other \in BankFechaCells(dc) :
             LET cfg == Config(0, 1)
                 comp == [fecha_norm |-> ParseFecha(Str(Strftime(dc.y, dc.m, dc.d, "%d/%m/%Y")), cfg)]
                 banco == [fecha_norm |-> ParseFecha(cell, cfg)]
                 comp2 == [fecha_norm |-> ParseFecha(Str(Strftime(db.y, db.m, db.d, "%d/%m/%Y")), cfg)]
                 banco2 == [fecha_norm |-> ParseFecha(other, cfg)]
             IN /\ fn' = "fecha_diff"
                /\ raw' = [comp |-> dc, banco |-> cell]
                /\ origin' = [kind |-> "dates",
                              comp_day |-> Ordinal(dc.y, dc.m, dc.d),
                              banco_day |-> Ordinal(db.y, db.m, db.d),
                              same_clock |-> (cell.t = other.t /\ (cell.t = "datetime" => cell.sec = other.sec))]
                /\ norm' = [fecha_diff |-> FechaDiff(banco, comp), exchanged |-> FechaDiff(banco2, comp2)]
    /\ UNCHANGED <<reconcile_vars, history, exporter_vars, intake_vars>>

(* one amount through both pipelines: read by the model as written on the  *)
(* receipt, cleaned by _limpiar_monto, stored, and normalized by the        *)
(* receipt loader; and written in the bank sheet and normalized by the      *)
(* bank loader                                                              *)
CompareAmount ==
    /\ \E a \in {x \in AmountChoices : Len(x.int) <= 5}, g \in BOOLEAN, pre_ \in {<<>>, <<"$", " ">>} :
          LET shown == [kind |-> "amount", int |-> a.int, frac |-> a.frac,
                        grouped |-> g, prefix |-> pre_, suffix |-> <<>>]
              stored == LimpiarMonto(Str(WriteMonto(shown)))
              bank == Str(WriteMonto([shown EXCEPT !.prefix = <<>>, !.grouped = TRUE]))
          IN /\ fn' = "amounts"
             /\ raw' = stored
             /\ origin' = shown
             /\ norm' = [comprobante |-> NormalizeMontoFloat(stored, MontoConfig),
                         banco |-> NormalizeMontoFloat(bank, MontoConfig)]
    /\ UNCHANGED <<reconcile_vars, history, exporter_vars, intake_vars>>

NextFunctions ==
    \/ MapResponse
    \/ ExtractCuit
    \/ DateDelta
    \/ CompareAmount

SpecFunctions == InitFunctions /\ [][NextFunctions]_vars

(***************************************************************************)
(* process_new_message (src/main.py).  last_message records the message    *)
(* it was given: its id, the path taken, the temporary image file (none    *)
(* created, present on disk, removed) and what procesar_comprobante        *)
(* returned.  The tables are those DbExporter writes to.                   *)
(***************************************************************************)
(* Comprobante(imagen_path=ruta_imagen): what procesar_comprobante returns *)
(* when the request to the model or the parsing of its answer fails        *)
EmptyComprobante == Comp(NoTransferId, "", "")

Message(id, path, img_file, extracted) ==
    [id |-> id, path |-> path, img_file |-> img_file, extracted |-> extracted]

InitMessages == InitExporter

(* hasMedia is false or the mimetype is not image/...: nothing is done *)
IgnoreMessage ==
    /\ \E id \in MessageIds : last_message' = Message(id, "ignored", "none", <<>>)
    /\ UNCHANGED <<comprobantes, mensajes, last_call>>
    /\ UNCHANGED <<reconcile_vars, history, normalizer_vars, requests, launcher_vars>>

(* base64.b64decode raises before the temporary file is created; or the    *)
(* file is created by NamedTemporaryFile(delete=False) and writing or       *)
(* closing it raises IOError: neither reaches the inner try, whose finally  *)
(* is the only place the file is removed                                    *)
FailBeforeExtraction ==
    /\ \E id \in MessageIds :
          \/ last_message' = Message(id, "decode_error", "none", <<>>)
          \/ last_message' = Message(id, "write_error", "present", <<>>)
    /\ UNCHANGED <<comprobantes, mensajes, last_call>>
    /\ UNCHANGED <<reconcile_vars, history, normalizer_vars, requests, launcher_vars>>

(* GeminiProcessor() or procesar_comprobante raises (Image.open on a file   *)
(* that is not an image): the finally removes the file                      *)
ExtractionRaises ==
    /\ \E id \in MessageIds : last_message' = Message(id, "raised", "removed", <<>>)
    /\ UNCHANGED <<comprobantes, mensajes, last_call>>
    /\ UNCHANGED <<reconcile_vars, history, normalizer_vars, requests, launcher_vars>>

(* procesar_comprobante returns a Comprobante, which is always truthy:      *)
(* exportar is called with the id of the message, then the file is removed  *)
ExtractAndExport ==
    /\ Len(comprobantes) < MaxStored
    /\ \E id \in MessageIds, comp \in CompChoices \cup {EmptyComprobante} :
          /\ Call(<<comp>>, id)
          /\ last_message' = Message(id, IF comprobantes' # comprobantes THEN "exported" ELSE "export_failed",
                                     "removed", <<comp>>)
    /\ UNCHANGED <<reconcile_vars, history, normalizer_vars, requests, launcher_vars>>

NextMessages ==
    \/ IgnoreMessage
    \/ FailBeforeExtraction
    \/ ExtractionRaises
    \/ ExtractAndExport

SpecMessages == InitMessages /\ [][NextMessages]_vars

(***************************************************************************)
(* receive_message (src/visualizador.py).  The web application serves its  *)
(* requests concurrently; each request is at a position of the handler.    *)
(* requests[r] holds the request's message id ('' when it carries none),   *)
(* what it says about its media, whether its id was already committed when *)
(* it arrived, its position, whether its Mensaje is flushed and not yet    *)
(* committed, whether it committed rows, and its answer: the status code   *)
(* and the status text or, for an error, what raised it.  mensajes and     *)
(* comprobantes are the committed tables; mensajes.message_id is UNIQUE.   *)
(***************************************************************************)
Unknown == "unknown"

(* message_id if message_id else "unknown" *)
MensajeKey(id) == MessageId(IF id # NoMessageId THEN id ELSE Unknown)

Committed(key) == \E k \in 1..Len(mensajes) : mensajes[k] = key

(* message_id without its UNIQUE constraint *)
UniqueViolation_NoConstraint(key) == FALSE

(* Column(String, unique=True): an INSERT of a committed message_id fails *)
UniqueViolation(key) == Committed(key)

Request(id, media) ==
    [id |-> id, media |-> media, late |-> id # NoMessageId /\ Committed(MessageId(id)),
     pc |-> "check", check_failed |-> FALSE, flushed |-> FALSE, inserted |-> FALSE,
     status |-> 0, answer |-> "none"]

Respond(req, status, answer) ==
    [req EXCEPT !.pc = "done", !.flushed = FALSE, !.status = status, !.answer = answer]

RequestIds == {"wamid1", NoMessageId}

MediaChoices == {"image", "no_file", "no_media"}

InitWebhook == InitExporter

(* a POST arrives; without a JSON body it is answered 400 at once *)
Receive ==
    /\ Len(requests) < MaxRequests
    /\ \/ \E id \in RequestIds, media \in MediaChoices :
             requests' = Append(requests, Request(id, media))
       \/ requests' = Append(requests, Respond(Request(NoMessageId, "no_media"), 400, "no_data"))
    /\ UNCHANGED <<comprobantes, mensajes, last_call, last_message, launcher_vars>>
    /\ UNCHANGED <<reconcile_vars, history, normalizer_vars>>

(* the duplicate check, in a session of its own: skipped for a request     *)
(* without id; an exception of the query is printed and the request goes on *)
CheckDuplicate ==
    /\ \E r \in 1..Len(requests) :
          /\ requests[r].pc = "check"
          /\ IF requests[r].id = NoMessageId
             THEN requests' = [requests EXCEPT ![r].pc = "media"]
             ELSE \/ requests' = [requests EXCEPT ![r] =
                                     IF Committed(MessageId(requests[r].id))
                                     THEN Respond(@, 200, "skipped")
                                     ELSE [@ EXCEPT !.pc = "media"]]
                  \/ requests' = [requests EXCEPT ![r].pc = "media", ![r].check_failed = TRUE]
    /\ UNCHANGED <<comprobantes, mensajes, last_call, last_message, launcher_vars>>
    /\ UNCHANGED <<reconcile_vars, history, normalizer_vars>>

(* has_media and image_path, and os.path.exists(image_path) *)
CheckMedia ==
    /\ \E r \in 1..Len(requests) :
          /\ requests[r].pc = "media"
          /\ requests' = [requests EXCEPT ![r] =
                             CASE @.media = "no_media" -> Respond(@, 200, "ignored")
                               [] @.media = "no_file" -> Respond(@, 404, "not_found")
                               [] OTHER -> [@ EXCEPT !.pc = "extract"]]
    /\ UNCHANGED <<comprobantes, mensajes, last_call, last_message, launcher_vars>>
    /\ UNCHANGED <<reconcile_vars, history, normalizer_vars>>

(* GeminiProcessor() and procesar_comprobante: a Comprobante, or an         *)
(* exception answered 500                                                   *)
Extract ==
    /\ \E r \in 1..Len(requests) :
          /\ requests[r].pc = "extract"
          /\ \/ requests' = [requests EXCEPT ![r].pc = "flush"]
             \/ requests' = [requests EXCEPT ![r] = Respond(@, 500, "gemini_error")]
    /\ UNCHANGED <<comprobantes, mensajes, last_call, last_message, launcher_vars>>
    /\ UNCHANGED <<reconcile_vars, history, normalizer_vars>>

(* db.add(nuevo_mensaje); db.flush(): the INSERT fails on a committed row   *)
(* with the same message_id (rollback, 500) and waits while another         *)
(* transaction holds an uncommitted row with it                             *)
FlushMensaje ==
    /\ \E r \in 1..Len(requests) :
          /\ requests[r].pc = "flush"
          /\ ~\E o \in 1..Len(requests) :
                o # r /\ requests[o].flushed /\ MensajeKey(requests[o].id) = MensajeKey(requests[r].id)
          /\ requests' = [requests EXCEPT ![r] =
                             IF UniqueViolation(MensajeKey(@.id))
                             THEN Respond(@, 500, "integrity_error")
                             ELSE [@ EXCEPT !.pc = "commit", !.flushed = TRUE]]
    /\ UNCHANGED <<comprobantes, mensajes, last_call, last_message, launcher_vars>>
    /\ UNCHANGED <<reconcile_vars, history, normalizer_vars>>

(* db.add(comprobante); db.commit(): 201, or the commit raises (rollback,   *)
(* 500)                                                                     *)
CommitRequest ==
    /\ \E r \in 1..Len(requests) :
          /\ requests[r].pc = "commit"
          /\ \/ /\ mensajes' = Append(mensajes, MensajeKey(requests[r].id))
                /\ comprobantes' = Append(comprobantes, Row(Comp("T1", "Galicia", "100"), Len(mensajes) + 1))
                /\ requests' = [requests EXCEPT ![r] = [Respond(@, 201, "success") EXCEPT !.inserted = TRUE]]
             \/ /\ requests' = [requests EXCEPT ![r] = Respond(@, 500, "commit_error")]
                /\ UNCHANGED <<comprobantes, mensajes>>
    /\ UNCHANGED <<last_call, last_message, launcher_vars>>
    /\ UNCHANGED <<reconcile_vars, history, normalizer_vars>>

NextWebhook ==
    \/ Receive
    \/ CheckDuplicate
    \/ CheckMedia
    \/ Extract
    \/ FlushMensaje
    \/ CommitRequest

SpecWebhook == InitWebhook /\ [][NextWebhook]_vars

(***************************************************************************)
(* ProcessTab (src/launcher_gui.py).  spawned holds, for every subprocess  *)
(* the tab has started, whether it is running, has been sent SIGKILL and   *)
(* is not gone yet, or has exited; process is self.process (the position   *)
(* of the last one started) and is_running is self.is_running.  The        *)
(* callbacks start_process, stop_process and update_logs run one at a time *)
(* on the Tk thread; a subprocess exits on its own at any moment.          *)
(***************************************************************************)
Alive(p) == spawned[p] \in {"running", "killed"}

InitLauncher == InitExporter

(* start_process: nothing while is_running; else Popen, which may raise *)
StartProcess ==
    /\ ~is_running
    /\ Len(spawned) < MaxSpawned
    /\ \/ /\ spawned' = Append(spawned, "running")
          /\ process' = Len(spawned) + 1
          /\ is_running' = TRUE
       \/ UNCHANGED <<spawned, process, is_running>>
    /\ UNCHANGED <<reconcile_vars, history, normalizer_vars, exporter_vars, last_message, requests>>

(* a subprocess ends: by itself, or because SIGKILL reaches it *)
ProcessExit ==
    /\ \E p \in 1..Len(spawned) :
          /\ Alive(p)
          /\ spawned' = [spawned EXCEPT ![p] = "exited"]
    /\ UNCHANGED <<process, is_running>>
    /\ UNCHANGED <<reconcile_vars, history, normalizer_vars, exporter_vars, last_message, requests>>

(* update_logs: is_running is cleared when poll() reports the exit *)
UpdateLogs ==
    /\ is_running /\ process # NoProcess /\ spawned[process] = "exited"
    /\ is_running' = FALSE
    /\ UNCHANGED <<spawned, process>>
    /\ UNCHANGED <<reconcile_vars, history, normalizer_vars, exporter_vars, last_message, requests>>

(* stop_process: SIGTERM and wait(timeout=2); on TimeoutExpired kill(),     *)
(* which is not waited for; any other exception of the signalling is        *)
(* logged; then is_running is cleared in every case                         *)
StopProcess ==
    /\ is_running /\ process # NoProcess
    /\ \/ spawned' = [spawned EXCEPT ![process] = "exited"]
       \/ /\ spawned[process] = "running"
          /\ spawned' = [spawned EXCEPT ![process] = "killed"]
       \/ UNCHANGED spawned
    /\ is_running' = FALSE
    /\ UNCHANGED process
    /\ UNCHANGED <<reconcile_vars, history, normalizer_vars, exporter_vars, last_message, requests>>

NextLauncher ==
    \/ StartProcess
    \/ ProcessExit
    \/ UpdateLogs
    \/ StopProcess

SpecLauncher == InitLauncher /\ [][NextLauncher]_vars

(***************************************************************************)
(* Vocabulary of the properties.                                           *)
(***************************************************************************)
Entered(stage) == \E k \in 1..Len(executed) : executed[k] = stage

Matches == results.matches

MatchedIds == {Matches[k].comprobante_id : k \in 1..Len(Matches)}

BancoRow(idx) == CHOOSE r \in Range(df_banco) : r.idx = idx

CompRow(idx) == CHOOSE r \in Range(df_comprobantes) : r.idx = idx

Marked(c) ==
    c.conciliado /\ c.observaciones_conciliacion = Observacion /\ c.fecha_conciliacion # Never

(* the three match conditions, on the normalized columns *)
KeysAgree(b, c) ==
    /\ b.cuit_norm = c.remitente_id_norm
    /\ b.fecha_norm.ok /\ c.fecha_norm.ok
    /\ FechaDiff(b, c) <= config.fecha_dias
    /\ MontoDiff(b, c) <= config.monto_diferencia

(***************************************************************************)
(* C1.  The matches of match_records pair one to one: no receipt row and   *)
(* no bank row appears in more than one match, whatever the input order    *)
(* and the tolerances.                                                     *)
(***************************************************************************)
C1_OneToOne ==
    \A a, b \in 1..Len(Matches) :
        a # b => /\ Matches[a].comprobante_row # Matches[b].comprobante_row
                 /\ Matches[a].comprobante_id # Matches[b].comprobante_id
                 /\ Matches[a].banco_row # Matches[b].banco_row

(* two bank rows competed for the receipt the first of them took *)
C1_Witness ==
    /\ pc = "persist"
    /\ Len(Matches) = 2
    /\ KeysAgree(BancoRow(Matches[2].banco_row), CompRow(Matches[1].comprobante_row))

(***************************************************************************)
(* C2.  conciliado is monotonic: a receipt whose flag was true when a run  *)
(* began has it true at every later point of the run, however the run      *)
(* ends.                                                                   *)
(***************************************************************************)
C2_Monotonic ==
    \A id \in DOMAIN pre : pre[id].conciliado => store[id].conciliado

(* a run that wrote to the table ended, and a receipt reconciled by an     *)
(* earlier run was not among its matches                                   *)
C2_Witness ==
    /\ pc = "exit"
    /\ store # pre
    /\ \E id \in DOMAIN pre : pre[id].conciliado /\ id \notin MatchedIds

(***************************************************************************)
(* C3.  Every record that reaches the matcher has a usable key, so no      *)
(* match pairs two records on an empty tax-id, and none involves a row     *)
(* whose date is null or whose amount is not positive.                     *)
(***************************************************************************)
UsableBanco(b) == b.cuit_norm # <<>> /\ b.fecha_norm.ok /\ b.monto_norm > 0

UsableComp(c) == c.remitente_id_norm # <<>> /\ c.fecha_norm.ok /\ c.monto_norm > 0

C3_UsableKeys ==
    \A k \in 1..Len(Matches) :
        /\ UsableBanco(BancoRow(Matches[k].banco_row))
        /\ UsableComp(CompRow(Matches[k].comprobante_row))

(***************************************************************************)
(* C4.  match_records is first-eligible-in-scan-order: the bank rows are   *)
(* taken in input order, and each is paired with the first receipt, in     *)
(* receipt input order, that no earlier bank row took and that agrees on   *)
(* tax-id, date within tolerance and amount within tolerance; a bank row   *)
(* with no such receipt is left unmatched.                                 *)
(***************************************************************************)
TakenBefore(i) ==
    {Matches[k].comprobante_row :
        k \in {n \in 1..Len(Matches) : \E h \in 1..(i - 1) : df_banco[h].idx = Matches[n].banco_row}}

EligibleFor(i) ==
    {j \in 1..Len(df_comprobantes) :
        /\ df_comprobantes[j].idx \notin TakenBefore(i)
        /\ KeysAgree(df_banco[i], df_comprobantes[j])}

Least(S) == CHOOSE j \in S : \A h \in S : j <= h

MatchesOf(i) == {k \in 1..Len(Matches) : Matches[k].banco_row = df_banco[i].idx}

C4_FirstEligible ==
    Entered("MATCH") =>
        /\ \A i \in 1..Len(df_banco) :
              IF EligibleFor(i) = {}
              THEN MatchesOf(i) = {}
              ELSE \E k \in MatchesOf(i) :
                      Matches[k].comprobante_row = df_comprobantes[Least(EligibleFor(i))].idx
        /\ \A a, b \in 1..Len(Matches) : a < b => Matches[a].banco_row < Matches[b].banco_row

(* two receipts were eligible for a bank row, the later one closer in date *)
(* and in amount; the earlier one was matched and the later one was not    *)
C4_Witness ==
    /\ pc = "persist"
    /\ \E i \in 1..Len(df_banco) : \E j1, j2 \in EligibleFor(i) :
          /\ j1 < j2
          /\ FechaDiff(df_banco[i], df_comprobantes[j2]) < FechaDiff(df_banco[i], df_comprobantes[j1])
          /\ MontoDiff(df_banco[i], df_comprobantes[j2]) < MontoDiff(df_banco[i], df_comprobantes[j1])
          /\ \E k \in MatchesOf(i) : Matches[k].comprobante_row = df_comprobantes[j1].idx
          /\ df_comprobantes[j2] \in Range(results.unmatched_comprobantes)

(***************************************************************************)
(* C5.  Partition completeness: the matches and the unmatched bank rows    *)
(* count up to the bank input, the matches and the unmatched receipts to   *)
(* the receipt input, and every input row is on exactly one side.          *)
(***************************************************************************)
C5_Partition ==
    Entered("MATCH") =>
        /\ Len(Matches) + Len(results.unmatched_banco) = Len(df_banco)
        /\ Len(Matches) + Len(results.unmatched_comprobantes) = Len(df_comprobantes)
        /\ \A i \in 1..Len(df_banco) :
              (MatchesOf(i) # {}) <=> (df_banco[i] \notin Range(results.unmatched_banco))
        /\ \A j \in 1..Len(df_comprobantes) :
              (\E k \in 1..Len(Matches) : Matches[k].comprobante_row = df_comprobantes[j].idx)
                  <=> (df_comprobantes[j] \notin Range(results.unmatched_comprobantes))

(* the matcher returned rows on every side *)
C5_Witness ==
    /\ pc = "persist"
    /\ Matches # <<>>
    /\ results.unmatched_banco # <<>>
    /\ results.unmatched_comprobantes # <<>>

(***************************************************************************)
(* C7.  The tolerance bounds are inclusive and both required: with one     *)
(* bank row and one receipt of equal normalized tax-id, the two are        *)
(* matched, nothing left unmatched, exactly when the date delta is at most *)
(* fecha_dias and the amount delta at most monto_diferencia; otherwise     *)
(* both are left unmatched.                                                *)
(***************************************************************************)
OnePair ==
    /\ Entered("MATCH")
    /\ Len(df_banco) = 1
    /\ Len(df_comprobantes) = 1
    /\ df_banco[1].cuit_norm = df_comprobantes[1].remitente_id_norm

WithinTolerances ==
    /\ df_banco[1].fecha_norm.ok /\ df_comprobantes[1].fecha_norm.ok
    /\ Abs(TimedeltaDays(df_comprobantes[1].fecha_norm, df_banco[1].fecha_norm)) <= config.fecha_dias
    /\ Abs(df_comprobantes[1].monto_norm - df_banco[1].monto_norm) <= config.monto_diferencia

C7_InclusiveTolerances ==
    OnePair =>
        IF WithinTolerances
        THEN /\ Len(Matches) = 1
             /\ results.unmatched_banco = <<>>
             /\ results.unmatched_comprobantes = <<>>
        ELSE /\ Matches = <<>>
             /\ results.unmatched_banco = df_banco
             /\ results.unmatched_comprobantes = df_comprobantes

(* a pair matched with both deltas exactly at their tolerance *)
C7_Witness ==
    /\ OnePair
    /\ Len(Matches) = 1
    /\ config.fecha_dias > 0
    /\ config.monto_diferencia > 0
    /\ Matches[1].fecha_diff_dias = config.fecha_dias
    /\ Matches[1].monto_diff = config.monto_diferencia

(***************************************************************************)
(* C8.  A failure while loading (configuration file missing, spreadsheet   *)
(* missing, a mapped column absent, the receipt read failing) ends the run *)
(* with an error before any write: the table is as it was when the run     *)
(* began, and MATCH, PERSIST and REPORT are not entered.                   *)
(***************************************************************************)
NothingWritten ==
    /\ store = pre
    /\ ~session.tx
    /\ report = {}
    /\ ~Entered("MATCH") /\ ~Entered("PERSIST") /\ ~Entered("REPORT")

BadSheet == ~excel.exists \/ \E k \in DOMAIN column_mapping : column_mapping[k] \notin excel.columns

C8_LoadFailureAborts ==
    /\ (pc \in {"load_bank", "load_receipts", "match"}) => (store = pre /\ ~session.tx)
    /\ (pc # "idle" /\ pc # "load_bank" /\ config # NoConfig /\ BadSheet) =>
          (pc = "exit" /\ outcome \in {"FileNotFoundError", "ValueError"} /\ NothingWritten
           /\ executed = <<"LOAD_BANK">>)
    /\ (pc \notin {"idle", "construct"} /\ config = NoConfig) =>
          (pc = "exit" /\ outcome \in {"FileNotFoundError", "ArchivoNoEncontrado"}
           /\ NothingWritten /\ executed = <<>>)
    /\ (outcome = "OperationalError") =>
          (pc = "exit" /\ NothingWritten /\ executed = <<"LOAD_BANK", "LOAD_RECEIPTS">>)

(* the sheet lacks a mapped column and the table holds receipts *)
C8_Witness ==
    /\ pc = "exit"
    /\ outcome = "ValueError"
    /\ excel.exists
    /\ "CUIT" \notin excel.columns
    /\ DOMAIN store # {}

(***************************************************************************)
(* C9.  PERSIST is all-or-nothing over the match list: once                *)
(* update_database has returned, every receipt of the list is marked       *)
(* (conciliado, the observation, a reconciliation date); when the update   *)
(* or the commit fails the table is as it was when the run began; and the  *)
(* table never holds only a part of the list marked.                       *)
(***************************************************************************)
PersistReturned ==
    Entered("PERSIST") /\ (pc \in {"report", "summary"} \/ (pc = "exit" /\ Entered("REPORT")))

C9_AllOrNothing ==
    /\ PersistReturned => \A id \in MatchedIds : Marked(store[id])
    /\ (outcome = "PersistenceError") => (store = pre /\ ~session.tx)
    /\ \/ store = pre
       \/ \A id \in DOMAIN store :
             IF id \in MatchedIds THEN Marked(store[id]) ELSE store[id] = pre[id]

(* a list of two receipts was rolled back: neither is marked *)
C9_Witness ==
    /\ outcome = "PersistenceError"
    /\ Len(Matches) = 2
    /\ \A id \in MatchedIds : ~store[id].conciliado

(***************************************************************************)
(* C10.  When PERSIST fails, reconcile rolls back and re-raises: the run   *)
(* ends with the exception, REPORT and SUMMARY are not entered and no      *)
(* report is written; REPORT is entered only with the list marked.         *)
(***************************************************************************)
C10_FailFastPersist ==
    /\ (outcome = "PersistenceError") =>
          /\ pc = "exit"
          /\ ~session.tx
          /\ ~Entered("REPORT") /\ ~Entered("SUMMARY")
          /\ report = {}
    /\ (pc = "report" \/ Entered("REPORT")) => \A id \in MatchedIds : store[id].conciliado
    /\ (pc = "exit" /\ executed # <<>> /\ executed[Len(executed)] = "PERSIST") =>
          outcome = "PersistenceError"

(* PERSIST failed in a run that had rows for every sheet of the report *)
C10_Witness ==
    /\ pc = "exit"
    /\ outcome = "PersistenceError"
    /\ executed = <<"LOAD_BANK", "LOAD_RECEIPTS", "MATCH", "PERSIST">>
    /\ results.unmatched_banco # <<>>
    /\ results.unmatched_comprobantes # <<>>

(***************************************************************************)
(* C11.  The stages of a run are entered in the order LOAD_BANK,           *)
(* LOAD_RECEIPTS, MATCH, PERSIST, REPORT, SUMMARY, each at most once and   *)
(* each only when the one before it has completed without error (an error  *)
(* ends the run); a run that ends without error has entered all six; and   *)
(* an empty match list does not stop the run: PERSIST returns without      *)
(* error, REPORT is entered, and SUMMARY follows a report that was         *)
(* written.                                                                *)
(***************************************************************************)
Stages == <<"LOAD_BANK", "LOAD_RECEIPTS", "MATCH", "PERSIST", "REPORT", "SUMMARY">>

Failed == outcome \notin {"none", "running", "ok"}

(* the number of stages entered when the run is at pc, no error so far *)
StagesEnteredAt(p) ==
    CASE p = "load_bank" -> 0
      [] p = "load_receipts" -> 1
      [] p = "match" -> 2
      [] p = "persist" -> 3
      [] p \in {"commit", "report"} -> 4
      [] p = "summary" -> 5
      [] OTHER -> Len(executed)

C12_ReportCompletes ==
    (Entered("REPORT") /\ outcome # "ReportError") =>
        /\ ~Failed
        /\ ("Conciliados" \in report) <=> (Matches # <<>>)
        /\ ("Faltantes en BD" \in report) <=> (results.unmatched_banco # <<>>)
        /\ ("Faltantes en Banco" \in report) <=> (results.unmatched_comprobantes # <<>>)

(***************************************************************************)
(* C13.  The reconcile command exits 1 when the spreadsheet path does not  *)
(* exist, when the configuration file does not exist and when an exception *)
(* leaves the run, and 0 in every other case, which is a run through all   *)
(* six stages; the spreadsheet path is checked before the configuration is *)
(* loaded and before a session is opened.                                  *)
(***************************************************************************)
C13_ExitCodes ==
    /\ (pc = "exit") =>
          /\ exit_code \in {0, 1}
          /\ (exit_code = 1) <=>
                \/ outcome = "ArchivoNoEncontrado"
                \/ outcome = "FileNotFoundError" /\ config = NoConfig
                \/ Failed
          /\ (exit_code = 0) => (outcome = "ok" /\ executed = Stages /\ config # NoConfig)
    /\ (outcome = "ArchivoNoEncontrado") =>
          (pc = "exit" /\ ~excel.exists /\ config = NoConfig /\ ~session.open /\ executed = <<>>)
    /\ (pc = "construct") => (excel.exists /\ config = NoConfig /\ ~session.open)
    /\ (config # NoConfig \/ session.open) => pc \notin {"idle", "construct"}

(* the spreadsheet path did not exist: exit 1 with nothing loaded or opened *)
C13_Witness ==
    /\ pc = "exit"
    /\ outcome = "ArchivoNoEncontrado"
    /\ exit_code = 1
    /\ DOMAIN store # {}

(***************************************************************************)
(* C18.  Frame of a run: the table keeps its rows; monto,                  *)
(* fecha_transferencia and remitente_id of every receipt are as they were  *)
(* when the run began; a receipt that is not in the match list is          *)
(* unchanged in every column; and up to the commit of PERSIST (loading,    *)
(* normalizing, matching) the table is not written at all.                 *)
(***************************************************************************)
C18_Frame ==
    /\ DOMAIN store = DOMAIN pre
    /\ \A id \in DOMAIN store :
          /\ store[id].monto = pre[id].monto
          /\ store[id].fecha_transferencia = pre[id].fecha_transferencia
          /\ store[id].remitente_id = pre[id].remitente_id
          /\ (id \notin MatchedIds) => store[id] = pre[id]
    /\ (pc \in {"construct", "load_bank", "load_receipts", "match", "persist", "commit"}) =>
          store = pre

(* a run marked one receipt and left another, not in its list, as it was *)
C18_Witness ==
    /\ pc = "exit"
    /\ outcome = "ok"
    /\ \E id \in MatchedIds : store[id] # pre[id]
    /\ \E id \in DOMAIN store : id \notin MatchedIds /\ ~store[id].conciliado

(***************************************************************************)
(* C14.  Reconciliation is idempotent across runs: of two consecutive      *)
(* runs that meet no error, on the same spreadsheet and configuration with *)
(* no other write to the table, the second reports the same matches, the   *)
(* same unmatched bank rows and the same unmatched receipts as the first,  *)
(* and leaves the same receipts marked conciliado.                         *)
(***************************************************************************)
C14_Idempotent ==
    \A k \in 1..(Len(history) - 1) : history[k + 1] = history[k]

(***************************************************************************)
(* C15.  _normalize_cuit gives one canonical string, the digits, to every  *)
(* writing of a tax-id that differs only in where it has hyphens, dots and *)
(* spaces, and the empty string to null and to blank input.                *)
(***************************************************************************)
C15_SeparatorsIgnored ==
    (fn = "cuit") => norm = origin.s

(* a tax-id written with a hyphen, a dot and a space *)
C15_Witness ==
    /\ fn = "cuit"
    /\ raw.t = "str"
    /\ Len(origin.s) >= 2
    /\ CuitSeparators \subseteq Range(raw.s)

(***************************************************************************)
(* C16.  With ',' for decimals and '.' for thousands, _normalize_monto     *)
(* returns the value of the amount for every writing of it that differs    *)
(* only in thousands grouping, currency symbol and whitespace, and returns *)
(* 0.0 for every input that is not a number.                               *)
(***************************************************************************)
SameValueForRenderings ==
    (fn = "monto" /\ origin.kind = "amount") =>
        norm = Finite(100 * DigitsValue(origin.int) + DigitsValue(origin.frac))

ZeroForText ==
    (fn = "monto" /\ origin.kind = "text") => norm = Finite(0)

C16_LocaleRenderings ==
    SameValueForRenderings /\ ZeroForText

(***************************************************************************)
(* C17.  _parse_fecha tries the configured format first and then           *)
(* day/month/year, year-month-day, day-month-year, year/month/day.  As     *)
(* stated: every rendering of a calendar date in a fallback format is      *)
(* parsed to that date, and an input matching no format yields None.       *)
(***************************************************************************)
DateOf(y, m, d) == [ok |-> TRUE, day |-> Ordinal(y, m, d), sec |-> 0]

NoneForText == (fn = "fecha" /\ origin.kind = "text") => norm = NoDate

C17_AnyPrimary ==
    /\ (fn = "fecha" /\ origin.kind = "date") => norm = DateOf(origin.y, origin.m, origin.d)
    /\ NoneForText

(* C17 as the code has it: the round trip holds when the configured format *)
(* is one of the four fallbacks (the default is); the configured format is *)
(* tried first, so under month/day/year the day/month/year rendering of a  *)
(* date whose day is at most 12 is read with day and month exchanged, and  *)
(* every other rendering falls through to its own format.                  *)
C17_FallbackRoundTrip ==
    /\ (fn = "fecha" /\ origin.kind = "date") =>
          IF origin.primary = "%m/%d/%Y" /\ origin.fmt = "%d/%m/%Y" /\ origin.d <= 12
          THEN norm = DateOf(origin.y, origin.d, origin.m)
          ELSE norm = DateOf(origin.y, origin.m, origin.d)
    /\ NoneForText

(* 5 March, rendered year/month/day, parsed by the last fallback under a   *)
(* day-month-year configuration                                            *)
C17_Witness ==
    /\ fn = "fecha"
    /\ origin.kind = "date"
    /\ origin.primary = "%d-%m-%Y"
    /\ origin.fmt = "%Y/%m/%d"
    /\ origin.d = 5 /\ origin.m = 3
    /\ norm = DateOf(origin.y, 3, 5)

(***************************************************************************)
(* C19.  Ingest dedup: after any sequence of exportar and exportar_lista   *)
(* calls, with or without a message_id, the comprobantes table never holds *)
(* two receipts with the same non-empty id_transferencia, the same banco   *)
(* and the same monto: a receipt whose key is already there is skipped.    *)
(***************************************************************************)
SameKey(a, b) ==
    /\ a.id_transferencia = b.id_transferencia
    /\ a.banco = b.banco
    /\ a.monto = b.monto

C19_NoDuplicateKeys ==
    \A i, j \in 1..Len(comprobantes) :
        (i < j /\ comprobantes[i].id_transferencia # NoTransferId) =>
            ~SameKey(comprobantes[i], comprobantes[j])

(***************************************************************************)
(* C20.  The dedup key of exportar_lista is (id_transferencia, banco,      *)
(* monto): after a committed call every receipt of its list that carries   *)
(* an id_transferencia is in the table under its own key, so two receipts  *)
(* with the same id_transferencia from different banks are both stored,    *)
(* whether the first was already in the table or is an earlier element of  *)
(* the same list.                                                          *)
(***************************************************************************)
C20_KeyIsIdBancoMonto ==
    last_call.committed =>
        \A k \in 1..Len(last_call.batch) :
            (last_call.batch[k].id_transferencia # NoTransferId) =>
                \E i \in 1..Len(comprobantes) : SameKey(comprobantes[i], last_call.batch[k])

(***************************************************************************)
(* C21.  After process_new_message, when extraction returned a receipt the *)
(* mensajes table has a Mensaje whose message_id is the id of the message  *)
(* and the comprobantes table has a row linked to it with the extracted    *)
(* banco, monto and id_transferencia; and whatever path was taken, no      *)
(* temporary image file is left on disk.                                   *)
(***************************************************************************)
StoredUnderMessage(id, comp) ==
    \E m \in 1..Len(mensajes) :
        /\ mensajes[m] = MessageId(id)
        /\ \E i \in 1..Len(comprobantes) :
              /\ comprobantes[i].mensaje_id = m
              /\ SameKey(comprobantes[i], comp)

C21_StoredAndFileRemoved ==
    /\ \A k \in 1..Len(last_message.extracted) :
          (last_message.extracted[k] \in CompChoices) =>
              StoredUnderMessage(last_message.id, last_message.extracted[k])
    /\ last_message.img_file # "present"

(* the same, for the messages whose image was written and whose export was *)
(* committed                                                               *)
C21_WhenExported ==
    (last_message.path = "exported") =>
        /\ \A k \in 1..Len(last_message.extracted) :
              StoredUnderMessage(last_message.id, last_message.extracted[k])
        /\ last_message.img_file = "removed"

(***************************************************************************)
(* C22.  procesar_comprobante maps a well-formed answer of the model to a  *)
(* Comprobante whose banco, monto, remitente_nombre, destinatario_nombre   *)
(* and id_transferencia are the answer's banco_emisor, monto,              *)
(* remitente.nombre_completo, destinatario.nombre_completo and             *)
(* codigo_operacion as the model returned them, and whose imagen_path is   *)
(* the path it was given.                                                  *)
(***************************************************************************)
C22_FieldsAsReturned ==
    (fn = "mapear") =>
        /\ norm.banco = raw.banco_emisor
        /\ norm.monto = raw.monto
        /\ norm.remitente_nombre = NombreCompleto(raw.remitente)
        /\ norm.destinatario_nombre = NombreCompleto(raw.destinatario)
        /\ norm.id_transferencia = raw.codigo_operacion
        /\ norm.imagen_path = origin.ruta_imagen

(***************************************************************************)
(* C23.  The date delta of match_records is the absolute number of         *)
(* calendar days between the receipt date and the bank date, so 0 on the   *)
(* same day, also when the bank cell is a datetime with a time of day; and *)
(* it is the same when the two dates change sides.                         *)
(***************************************************************************)
C23_DateDeltaSymmetric ==
    (fn = "fecha_diff") =>
        /\ norm.fecha_diff = Abs(origin.comp_day - origin.banco_day)
        /\ origin.same_clock => norm.fecha_diff = norm.exchanged

(***************************************************************************)
(* C24.  _extract_cuit_bank_excel returns, for a string with '-', the      *)
(* integer made of the digits of its second dash-separated segment; for a  *)
(* string without '-', the integer made of all its digits; and 0 when      *)
(* there is no digit.                                                      *)
(***************************************************************************)
C24_ExtractedCuit ==
    (fn = "extract_cuit" /\ raw.t = "str") =>
        norm = IntValue(DigitsValue(IF Contains(raw.s, "-")
                                    THEN Keep(Segment(raw.s, 2), Digits)
                                    ELSE Keep(raw.s, Digits)))

(***************************************************************************)
(* C27.  For every amount, the value the receipt loader computes from the  *)
(* monto stored by the extraction (the output of _limpiar_monto) equals    *)
(* the value the bank loader computes from the same amount written in the  *)
(* configured locale format.                                               *)
(***************************************************************************)
C27_AmountsComparable ==
    (fn = "amounts") => norm.comprobante = norm.banco

(***************************************************************************)
(* C25.  When reconcile ends with an exception, at whatever stage, the     *)
(* conciliado flag of every receipt in the table is the one it had before  *)
(* the run.                                                                *)
(***************************************************************************)
C25_FailureKeepsFlags ==
    (pc = "exit" /\ Failed) =>
        \A id \in DOMAIN store : store[id].conciliado = pre[id].conciliado

(***************************************************************************)
(* C26.  The result of match_records is maximal: once it has returned, no  *)
(* bank row left unmatched and receipt left unmatched satisfy the three    *)
(* match conditions (equal tax-id, date delta and amount delta within the  *)
(* tolerances).                                                            *)
(***************************************************************************)
C26_Maximal ==
    \A i \in 1..Len(results.unmatched_banco), j \in 1..Len(results.unmatched_comprobantes) :
        ~KeysAgree(results.unmatched_banco[i], results.unmatched_comprobantes[j])

(* one pair was made, and a bank row and a receipt of the same tax-id were *)
(* both left over                                                          *)
C26_Witness ==
    /\ pc = "persist"
    /\ Len(Matches) = 1
    /\ \E i \in 1..Len(results.unmatched_banco), j \in 1..Len(results.unmatched_comprobantes) :
          /\ CuitMatch(results.unmatched_banco[i], results.unmatched_comprobantes[j])
          /\ results.unmatched_banco[i].cuit_norm # <<>>

(***************************************************************************)
(* C28.  Whatever the interleaving of the receive_message requests that    *)
(* carry the same non-empty message id, at most one Mensaje and at most    *)
(* one Comprobante for that id are committed; a request that arrives after *)
(* the id was committed inserts nothing and is answered 'skipped' (when    *)
(* its duplicate query itself raises, it is answered with the error of the *)
(* rejected INSERT instead).                                               *)
(***************************************************************************)
MensajesOf(id) == {k \in 1..Len(mensajes) : mensajes[k] = MessageId(id)}

ComprobantesOf(id) == {i \in 1..Len(comprobantes) : comprobantes[i].mensaje_id \in MensajesOf(id)}

C29_IdlessStored ==
    \A r \in 1..Len(requests) :
        (/\ requests[r].id = NoMessageId
         /\ requests[r].media = "image"
         /\ requests[r].pc = "done"
         /\ requests[r].answer \notin {"gemini_error", "commit_error"}) =>
            (requests[r].status = 201 /\ requests[r].inserted)

(***************************************************************************)
(* C30.  A ProcessTab never has two of its subprocesses alive at once, and *)
(* is_running is false only when no process was started or the last one    *)
(* started is gone (its exit seen by update_logs, or stop_process having   *)
(* terminated it), for every interleaving of start, stop, process exit and *)
(* the update_logs poll.                                                   *)
(***************************************************************************)
C30_OneSubprocess ==
    /\ Cardinality({p \in 1..Len(spawned) : Alive(p)}) <= 1
    /\ ~is_running => (process = NoProcess \/ ~Alive(process))

====
